---- MODULE Spec2Model ----
(***************************************************************************)
(* ODF Barber Shop: the time-slot capacity and appointment bookkeeping of  *)
(* the Flask application (src/app.py holds the models, the event listeners *)
(* and the routes; src/models.py holds an older copy of the routes).       *)
(*                                                                         *)
(* The relational store is modelled by its committed rows.  A request that *)
(* reads rows, decides, and then commits is modelled in two steps (Begin,  *)
(* Commit) so that other requests can commit between its read and its      *)
(* write; the flush and COMMIT of one SQLAlchemy session are one atomic    *)
(* step in which the table constraints are evaluated on the current rows.  *)
(***************************************************************************)
EXTENDS Integers, Sequences, FiniteSets, TLC

\* ---------------------------------------------------------------- bounds
\* Primary keys are handed out by a counter and never reused.
MaxSlotId == 3
MaxApptId == 2
\* Largest max_appointments an admin form submits in the model.
MaxCap == 2
\* Largest days_ahead generate_time_slots is called with in the model.
MaxDaysAhead == 1

\* ------------------------------------------------------------- constants
\* max_appointments of a generated slot (app.py:985).
GeneratedCapacity == 2
\* The booking form offers slots of today .. today + 5 (app.py:285).
ListingWindowDays == 5

Workers == {"w1", "w2", "w3"}

\* class AppointmentStatus (app.py:53-59), by member name.
AppointmentStatus ==
    {"PENDING", "CONFIRMED", "COMPLETED", "CANCELLED", "RESCHEDULED", "NO_SHOW"}

\* class TimeSlotPeriod (app.py:61-64), member names in declaration order.
TimeSlotPeriod == <<"MORNING", "AFTERNOON", "EVENING">>

Periods == {TimeSlotPeriod[i] : i \in 1..Len(TimeSlotPeriod)}

\* Position of a member in the declaration of TimeSlotPeriod.
PeriodOrdinal(p) == CHOOSE i \in 1..Len(TimeSlotPeriod) : TimeSlotPeriod[i] = p

\* Rank of the member NAME in string order: "AFTERNOON" < "EVENING" < "MORNING".
PeriodNameRank(p) ==
    CASE p = "AFTERNOON" -> 1
      [] p = "EVENING"   -> 2
      [] p = "MORNING"   -> 3

\* The value None of a nullable column.
None == 0

VARIABLES
    backend,          \* "postgresql" or "sqlite": chosen from DATABASE_URL at start-up
    today,            \* datetime.now(timezone.utc).date(), as a day number
    now,              \* datetime.now(timezone.utc), as an instant number (> 0)
    barbers,          \* odf_barbers:   id -> [is_active]
    services,         \* odf_services:  id -> [price (hundredths), duration_minutes, is_active]
    slots,            \* odf_time_slots: id -> row
    appts,            \* odf_appointments (+ odf_appointment_services): id -> row
    nextSlotId,       \* next primary key of odf_time_slots
    nextApptId,       \* next primary key of odf_appointments
    admin_logged_in,  \* "admin_logged_in" in session
    txn,              \* per worker: the request it is in the middle of
    time_slot_options \* the slot ids last rendered into the booking form

dbvars == <<barbers, services, slots, appts, nextSlotId, nextApptId>>

envvars == <<backend, today, now>>

vars == <<backend, today, now, barbers, services, slots, appts, nextSlotId,
          nextApptId, admin_logged_in, txn, time_slot_options>>

Idle == [op |-> "idle"]

\* ------------------------------------------------------ the store's rules

\* A table created without the CHECK constraint.
CheckConstraintOff(row) == TRUE

\* CheckConstraint 'current_appointments <= max_appointments' of odf_time_slots.
check_appointment_limit(row) == row.current_appointments <= row.max_appointments

SlotKey(row) == <<row.date, row.period, row.barber_id>>

\* A table without the unique key.
unique_key_off(sl) == TRUE

\* UniqueConstraint('date', 'period', 'barber_id') of odf_time_slots.
date_period_barber_uc(sl) ==
    \A i \in DOMAIN sl : \A j \in DOMAIN sl : SlotKey(sl[i]) = SlotKey(sl[j]) => i = j

\* PostgreSQL enforces the ForeignKey columns; the SQLite fall-back is opened
\* without PRAGMA foreign_keys, so there they are declarations only.
ForeignKeysEnforced == backend = "postgresql"

\* Every row of the table satisfies its CHECK constraint.
TableChecksHold(sl) == \A i \in DOMAIN sl : check_appointment_limit(sl[i])

\* The appointments whose time_slot_id is slot_id.
AppointmentsOf(ap, slot_id) == {a \in DOMAIN ap : ap[a].time_slot_id = slot_id}

\* ------------------------------------------------------- event listeners

\* after_insert: UPDATE odf_time_slots SET current_appointments =
\* current_appointments + 1 WHERE id = :slot_id.
appointment_after_insert(sl, slot_id) ==
    IF slot_id \in DOMAIN sl
    THEN [sl EXCEPT ![slot_id].current_appointments = @ + 1]
    ELSE sl

\* A release that subtracts 1 without the CASE WHEN floor.
DeleteWithoutFloor(sl, slot_id) ==
    IF slot_id \in DOMAIN sl
    THEN [sl EXCEPT ![slot_id].current_appointments = @ - 1]
    ELSE sl

\* after_delete: UPDATE odf_time_slots SET current_appointments = CASE WHEN
\* current_appointments > 0 THEN current_appointments - 1 ELSE 0 END WHERE id = :slot_id.
appointment_after_delete(sl, slot_id) ==
    IF slot_id \in DOMAIN sl
    THEN [sl EXCEPT ![slot_id].current_appointments = IF @ > 0 THEN @ - 1 ELSE 0]
    ELSE sl

\* ------------------------------------------------------------ Appointment

RECURSIVE SumOf(_, _)
\* sum(f[x] for x in S)
SumOf(f, S) ==
    IF S = {} THEN 0
    ELSE LET x == CHOOSE y \in S : TRUE IN f[x] + SumOf(f, S \ {x})

\* Prices are counted in hundredths, the two places of Numeric(10, 2). A binary
\* double holds an amount exactly when its fraction is a multiple of 0.25.
BinaryExactHundredths == 25

\* sum(float(service.price) for service in self.services). A double is written as
\* the decimal amount nearest to it in hundredths and the side on which it lies of
\* that amount: drift 0 when it is that amount, -1 below, 1 above. Amounts that are
\* all exact in binary add exactly; otherwise the sum is rounded, and it can only be
\* an amount that a double can hold.
sum_of_floats(svc, attached) ==
    LET total == SumOf([s \in attached |-> svc[s].price], attached)
        all_exact == \A s \in attached : svc[s].price % BinaryExactHundredths = 0
    IN {[hundredths |-> total, drift |-> e] :
           e \in IF all_exact THEN {0}
                 ELSE IF total % BinaryExactHundredths = 0 THEN {-1, 0, 1}
                 ELSE {-1, 1}}

\* Appointment.calculate_totals: the totals it may assign, one per double the price
\* sum may be.
calculate_totals(svc, attached) ==
    {[estimated_duration |-> SumOf([s \in attached |-> svc[s].duration_minutes], attached),
      estimated_price    |-> p] : p \in sum_of_floats(svc, attached)}

\* A column that keeps the double as it is.
FloatColumn(f) == f

\* estimated_price = db.Column(db.Numeric(10, 2)): the value comes back as a Decimal
\* with two places, rounded by PostgreSQL when it is written and by the SQLite
\* dialect's result processor when it is read. The drift of a double is far below
\* half a hundredth.
Numeric_10_2(f) == [hundredths |-> f.hundredths, drift |-> 0]

\* A Decimal of two places.
Decimal(hundredths) == [hundredths |-> hundredths, drift |-> 0]

\* An update_status that stamps a column only while it is empty.
stamp_once(row, new_status) ==
    [row EXCEPT !.status = new_status,
                !.confirmed_at = IF new_status = "CONFIRMED" /\ @ = None THEN now ELSE @,
                !.completed_at = IF new_status = "COMPLETED" /\ @ = None THEN now ELSE @,
                !.cancelled_at = IF new_status = "CANCELLED" /\ @ = None THEN now ELSE @]


\* An update_status that also runs calculate_totals on the services as they are now.
update_status_recalculates(row, new_status) ==
    [row EXCEPT !.status = new_status,
                !.estimated_duration =
                   SumOf([s \in row.services |-> services[s].duration_minutes], row.services),
                !.estimated_price =
                   Decimal(SumOf([s \in row.services |-> services[s].price], row.services))]


\* An update_status that sets the status and leaves the timestamps alone.
status_without_stamp(row, new_status) == [row EXCEPT !.status = new_status]

\* Appointment.update_status: set the status and stamp the matching column.
update_status(row, new_status) ==
    [row EXCEPT !.status = new_status,
                !.confirmed_at = IF new_status = "CONFIRMED" THEN now ELSE @,
                !.completed_at = IF new_status = "COMPLETED" THEN now ELSE @,
                !.cancelled_at = IF new_status = "CANCELLED" THEN now ELSE @]

\* A validator that accepts every date.
any_date(date) == TRUE

\* TimeSlot.validate_date: raises ValueError for a date before today.
validate_date(date) == date >= today

\* TimeSlot.validate_current_appointments: raises ValueError above the maximum.
validate_current_appointments(value, max_appointments) == value <= max_appointments

\* ------------------------------------------------------------------ Init

\* The clock and the rows of init-db/seed-db: one barber and two services, of which
\* service 2 has been switched off by toggle_service_status.
SeededStore ==
    /\ backend \in {"postgresql", "sqlite"}
    /\ today = 1
    /\ now = 1
    /\ barbers = [b \in {1} |-> [is_active |-> TRUE]]
    /\ services = [s \in {1, 2} |->
                     IF s = 1
                     THEN [price |-> 1500000, duration_minutes |-> 45, is_active |-> TRUE]
                     ELSE [price |-> 1000000, duration_minutes |-> 30, is_active |-> FALSE]]

\* The state after start-up, before any slot exists and before the admin logs in.
Init ==
    /\ SeededStore
    /\ slots = [i \in {} |-> 0]
    /\ appts = [i \in {} |-> 0]
    /\ nextSlotId = 1
    /\ nextApptId = 1
    /\ admin_logged_in = FALSE
    /\ txn = [w \in Workers |-> Idle]
    /\ time_slot_options = <<>>

\* The rows of a table with row r added under key id.
Insert(table, id, r) == [i \in DOMAIN table \cup {id} |-> IF i = id THEN r ELSE table[i]]

\* The rows of a table without key id.
Delete(table, id) == [i \in DOMAIN table \ {id} |-> table[i]]

\* Requests of kind op that have read and not yet committed.
InFlight(op) == {w \in Workers : txn[w].op = op}

\* ------------------------------------------------------ book_appointment

\* The POST forms tried for the slots slot_ids: the chosen services vary; one form
\* lacks a required field, one fails an Appointment validator (email, phone or
\* postal code), one names a barber that does not exist.
BookForms(slot_ids) ==
    {[missing |-> FALSE, timeSlot |-> s, servicesNeeded |-> sv, barber |-> 1,
      format_ok |-> TRUE] : s \in slot_ids, sv \in {{}, {1}, {2}, {1, 2}}}
    \cup {[missing |-> TRUE, timeSlot |-> 1, servicesNeeded |-> {1}, barber |-> 1,
           format_ok |-> TRUE],
          [missing |-> FALSE, timeSlot |-> 1, servicesNeeded |-> {1}, barber |-> 1,
           format_ok |-> FALSE],
          [missing |-> FALSE, timeSlot |-> 1, servicesNeeded |-> {1}, barber |-> 2,
           format_ok |-> TRUE]}

\* A selection that keeps every chosen service that exists, active or not.
chosen_existing(form) == {s \in form.servicesNeeded : s \in DOMAIN services}

\* selected_services: the chosen services that exist and are active.
selected_services(form) ==
    {s \in form.servicesNeeded : s \in DOMAIN services /\ services[s].is_active}

\* A handler without the admission pre-check.
PreCheckSkipped(slot) == FALSE

\* A pre-check that looks at the capacity only.
pre_check_capacity_only(slot) == slot.current_appointments >= slot.max_appointments

\* The admission pre-check: the slot is full or switched off.
slot_no_longer_available(slot) ==
    \/ slot.current_appointments >= slot.max_appointments
    \/ ~slot.is_available

\* A handler that takes every request to the commit.
always_commit(form) == "commit"

\* What the POST handler decides before it reaches db.session.commit().
book_decision(form) ==
    IF form.missing \/ form.servicesNeeded = {} THEN "missing_fields"
    ELSE IF form.timeSlot \notin DOMAIN slots THEN "error"
    ELSE IF slot_no_longer_available(slots[form.timeSlot]) THEN "slot_unavailable"
    ELSE IF selected_services(form) = {} THEN "no_valid_service"
    ELSE IF form.barber \notin DOMAIN barbers THEN "error"
    ELSE IF ~form.format_ok THEN "invalid_data"
    ELSE "commit"

\* POST /book up to the commit: validate, read the slot, build the Appointment.
BookBegin(w, form) ==
    /\ txn[w] = Idle
    /\ IF book_decision(form) = "commit"
       THEN /\ nextApptId <= MaxApptId
            /\ \E totals \in calculate_totals(services, selected_services(form)) :
                 txn' = [txn EXCEPT ![w] =
                           [op |-> "book", slot |-> form.timeSlot, barber |-> form.barber,
                            services |-> selected_services(form), totals |-> totals]]
       ELSE UNCHANGED txn
    /\ UNCHANGED <<dbvars, envvars, admin_logged_in, time_slot_options>>

\* A booking that is stored as already confirmed.
NewAppointmentConfirmed(t) ==
    [time_slot_id |-> t.slot, barber_id |-> t.barber, status |-> "CONFIRMED",
     services |-> t.services,
     estimated_duration |-> t.totals.estimated_duration,
     estimated_price |-> Numeric_10_2(t.totals.estimated_price),
     confirmed_at |-> now, completed_at |-> None, cancelled_at |-> None]

\* The Appointment row the handler builds (app.py:385-401).
new_appointment(t) ==
    [time_slot_id |-> t.slot, barber_id |-> t.barber, status |-> "PENDING",
     services |-> t.services,
     estimated_duration |-> t.totals.estimated_duration,
     estimated_price |-> Numeric_10_2(t.totals.estimated_price),
     confirmed_at |-> None, completed_at |-> None, cancelled_at |-> None]

\* The flush of the booking succeeds: foreign keys (where enforced) and the CHECK
\* constraint on the slot row the after_insert listener updated.
BookFlushOK(t) ==
    /\ ForeignKeysEnforced => (t.slot \in DOMAIN slots /\ t.barber \in DOMAIN barbers)
    /\ t.slot \in DOMAIN slots =>
         check_appointment_limit(appointment_after_insert(slots, t.slot)[t.slot])

\* What the handler answers at db.session.commit(): the success flash and the redirect
\* to thank_you, or, for whatever the store raised, the flash of except Exception,
\* "An error occurred while requesting your appointment. Please try again."  The
\* answers before the commit are those of book_decision.
book_commit_answer(t) == IF BookFlushOK(t) THEN "success" ELSE "error"

\* db.session.add(new_appointment); db.session.commit(): INSERT, after_insert, COMMIT,
\* or the rollback of all of it in the except branch.
BookCommit(w) ==
    /\ txn[w].op = "book"
    /\ IF BookFlushOK(txn[w])
       THEN /\ nextApptId <= MaxApptId
            /\ appts' = Insert(appts, nextApptId, new_appointment(txn[w]))
            /\ slots' = appointment_after_insert(slots, txn[w].slot)
            /\ nextApptId' = nextApptId + 1
       ELSE UNCHANGED <<appts, slots, nextApptId>>
    /\ txn' = [txn EXCEPT ![w] = Idle]
    /\ UNCHANGED <<barbers, services, nextSlotId, envvars, admin_logged_in,
                   time_slot_options>>

\* ----------------------------------------------------------- admin session

\* login_required: a wrapped route runs only with "admin_logged_in" in session;
\* otherwise the request is redirected to the login page and changes nothing.  Every
\* admin action below carries the conjunct admin_logged_in for it.

\* admin_login: POST with the right or the wrong username and password.
AdminLogin(credentials_ok) ==
    /\ admin_logged_in' = (credentials_ok \/ admin_logged_in)
    /\ UNCHANGED <<dbvars, envvars, txn, time_slot_options>>

\* admin_logout
AdminLogout ==
    /\ admin_logged_in
    /\ admin_logged_in' = FALSE
    /\ UNCHANGED <<dbvars, envvars, txn, time_slot_options>>

\* ------------------------------------------------------ delete_appointment

\* Appointment.query.get_or_404(appointment_id), then db.session.delete(...).
DeleteAppointmentBegin(w, appointment_id) ==
    /\ admin_logged_in
    /\ txn[w] = Idle
    /\ IF appointment_id \in DOMAIN appts
       THEN /\ txn' = [txn EXCEPT ![w] =
                         [op |-> "delete_appointment", appt |-> appointment_id,
                          slot |-> appts[appointment_id].time_slot_id]]
       ELSE UNCHANGED txn
    /\ UNCHANGED <<dbvars, envvars, admin_logged_in, time_slot_options>>

\* db.session.commit() of delete_appointment: the flush loads appointment.services,
\* DELETEs the association rows and the appointment row, runs after_delete, COMMITs.
\* When another request has deleted the row since it was read, the build has two
\* outcomes.  stale_row_raises: the association rows were still visible when the
\* flush loaded them and the DELETE then matched none (StaleDataError, rollback).
\* Otherwise the collection loads empty, the DELETE of the appointment row matches
\* no row, which only warns on a mapper without version_id_col, and after_delete
\* runs again.
DeleteAppointmentCommit(w) ==
    /\ txn[w].op = "delete_appointment"
    /\ \E stale_row_raises \in BOOLEAN :
         IF txn[w].appt \notin DOMAIN appts /\ stale_row_raises
         THEN UNCHANGED <<appts, slots>>
         ELSE /\ appts' = Delete(appts, txn[w].appt)
              /\ slots' = appointment_after_delete(slots, txn[w].slot)
    /\ txn' = [txn EXCEPT ![w] = Idle]
    /\ UNCHANGED <<barbers, services, nextSlotId, nextApptId, envvars,
                   admin_logged_in, time_slot_options>>

\* ------------------------------------------------ update_appointment_status

\* str.upper() on the form values tried; None has no upper() (AttributeError).
Upper(str) ==
    CASE str = "pending"     -> "PENDING"
      [] str = "confirmed"   -> "CONFIRMED"
      [] str = "completed"   -> "COMPLETED"
      [] str = "Completed"   -> "COMPLETED"
      [] str = "cancelled"   -> "CANCELLED"
      [] str = "rescheduled" -> "RESCHEDULED"
      [] str = "no_show"     -> "NO_SHOW"
      [] str = "bogus"       -> "BOGUS"
      [] OTHER               -> str


\* A lookup that finds a member for whatever it is given.
any_status_parses(new_status_str) == TRUE

\* getattr(AppointmentStatus, new_status_str.upper()) succeeds.
status_parses(new_status_str) ==
    new_status_str # "None" /\ Upper(new_status_str) \in AppointmentStatus

\* A status route that lets no appointment leave COMPLETED or CANCELLED.
terminal_is_final(appointment_id, new_status_str) ==
    IF appointment_id \notin DOMAIN appts THEN "not_found"
    ELSE IF ~status_parses(new_status_str) THEN "invalid_status"
    ELSE IF appts[appointment_id].status \in {"COMPLETED", "CANCELLED"} THEN "refused"
    ELSE "commit"

\* What update_appointment_status answers: 404, the "Invalid status update requested."
\* flash of the except (AttributeError, ValueError) branch, or the update.
status_decision(appointment_id, new_status_str) ==
    IF appointment_id \notin DOMAIN appts THEN "not_found"
    ELSE IF ~status_parses(new_status_str) THEN "invalid_status"
    ELSE "commit"

\* A status route that gives the unit back to the slot when it cancels.
CancelReleasesSlot(appointment_id, new_status_str) ==
    /\ admin_logged_in
    /\ IF status_decision(appointment_id, new_status_str) = "commit"
       THEN /\ appts' = [appts EXCEPT ![appointment_id] =
                           update_status(@, Upper(new_status_str))]
            /\ slots' = IF Upper(new_status_str) = "CANCELLED"
                        THEN appointment_after_delete(slots, appts[appointment_id].time_slot_id)
                        ELSE slots
       ELSE UNCHANGED <<appts, slots>>
    /\ UNCHANGED <<barbers, services, nextSlotId, nextApptId, envvars,
                   admin_logged_in, txn, time_slot_options>>

\* POST /admin/appointment/<id>/status with form value new_status_str.
UpdateAppointmentStatus(appointment_id, new_status_str) ==
    /\ admin_logged_in
    /\ IF status_decision(appointment_id, new_status_str) = "commit"
       THEN appts' = [appts EXCEPT ![appointment_id] =
                        update_status(@, Upper(new_status_str))]
       ELSE UNCHANGED appts
    /\ UNCHANGED <<barbers, services, slots, nextSlotId, nextApptId, envvars,
                   admin_logged_in, txn, time_slot_options>>

\* ------------------------------------------- toggle_timeslot_availability


\* An availability switch that is not behind login_required.
toggle_without_login(timeslot_id) ==
    /\ IF timeslot_id \in DOMAIN slots
       THEN slots' = [slots EXCEPT ![timeslot_id].is_available = ~@]
       ELSE UNCHANGED slots
    /\ UNCHANGED <<barbers, services, appts, nextSlotId, nextApptId, envvars,
                   admin_logged_in, txn, time_slot_options>>

ToggleTimeslotAvailability(timeslot_id) ==
    /\ admin_logged_in
    /\ IF timeslot_id \in DOMAIN slots
       THEN slots' = [slots EXCEPT ![timeslot_id].is_available = ~@]
       ELSE UNCHANGED slots
    /\ UNCHANGED <<barbers, services, appts, nextSlotId, nextApptId, envvars,
                   admin_logged_in, txn, time_slot_options>>

\* ------------------------------------------------------------ add_timeslot

\* The admin forms tried for a slot: the given dates and periods, any capacity in
\* -1 .. MaxCap, with barber 1; one form names a barber that does not exist.
SlotForms(dates, periods) ==
    {[date |-> d, period |-> p, barber_id |-> 1, max_appointments |-> m] :
        d \in dates, p \in periods, m \in (-1)..MaxCap}
    \cup {[date |-> today, period |-> "MORNING", barber_id |-> 2, max_appointments |-> 1]}

\* The edit forms that keep the slot's key and submit any capacity in -1 .. MaxCap.
CapacityForms(timeslot_id) ==
    IF timeslot_id \in DOMAIN slots
    THEN {[date |-> slots[timeslot_id].date, period |-> slots[timeslot_id].period,
           barber_id |-> slots[timeslot_id].barber_id, max_appointments |-> m] :
             m \in (-1)..MaxCap}
    ELSE {[date |-> today, period |-> "MORNING", barber_id |-> 1, max_appointments |-> 1]}

\* Barber.query.get(barber_id) finds an active barber.
barber_valid(barber_id) == barber_id \in DOMAIN barbers /\ barbers[barber_id].is_active

\* TimeSlot.query.filter_by(date, period, barber_id) finds a row other than except_id.
existing_slot(form, except_id) ==
    \E i \in DOMAIN slots \ {except_id} :
        SlotKey(slots[i]) = <<form.date, form.period, form.barber_id>>

\* What add_timeslot decides before it reaches db.session.commit(); the TimeSlot
\* constructor runs validate_date and validate_current_appointments(0).
add_decision(form) ==
    IF ~barber_valid(form.barber_id) THEN "invalid_barber"
    ELSE IF existing_slot(form, 0) THEN "slot_exists"
    ELSE IF ~validate_date(form.date) THEN "error"
    ELSE IF ~validate_current_appointments(0, form.max_appointments) THEN "error"
    ELSE "commit"

new_timeslot(form) ==
    [date |-> form.date, period |-> form.period, barber_id |-> form.barber_id,
     is_available |-> TRUE, max_appointments |-> form.max_appointments,
     current_appointments |-> 0]

\* The INSERT succeeds under the unique key and the CHECK constraint.
AddFlushOK(form) ==
    /\ date_period_barber_uc(Insert(slots, nextSlotId, new_timeslot(form)))
    /\ check_appointment_limit(new_timeslot(form))

\* POST /admin/timeslot/add: the pre-checks, then db.session.add and commit, or the
\* rollback in the except branch.
AddTimeslot(form) ==
    /\ admin_logged_in
    /\ IF add_decision(form) = "commit" /\ AddFlushOK(form)
       THEN /\ nextSlotId <= MaxSlotId
            /\ slots' = Insert(slots, nextSlotId, new_timeslot(form))
            /\ nextSlotId' = nextSlotId + 1
       ELSE UNCHANGED <<slots, nextSlotId>>
    /\ UNCHANGED <<barbers, services, appts, nextApptId, envvars, admin_logged_in,
                   txn, time_slot_options>>

\* ----------------------------------------------------------- edit_timeslot

\* The capacity floor of the edit form against the counter the handler read.
max_below_current(max_appointments, slot) ==
    max_appointments < slot.current_appointments

\* What edit_timeslot decides before it reaches db.session.commit(); assigning
\* timeslot.date runs validate_date.
edit_decision(timeslot_id, form) ==
    IF timeslot_id \notin DOMAIN slots THEN "not_found"
    ELSE IF ~barber_valid(form.barber_id) THEN "invalid_barber"
    ELSE IF max_below_current(form.max_appointments, slots[timeslot_id])
         THEN "max_below_current"
    ELSE IF existing_slot(form, timeslot_id) THEN "slot_exists"
    ELSE IF ~validate_date(form.date) THEN "error"
    ELSE "commit"

\* The loaded values of the four attributes the handler assigns.
loaded_attributes(row) ==
    [date |-> row.date, period |-> row.period, barber_id |-> row.barber_id,
     max_appointments |-> row.max_appointments]

\* POST /admin/timeslot/<id>/edit up to the commit; the session keeps the loaded
\* values and the assigned ones.
EditTimeslotBegin(w, timeslot_id, form) ==
    /\ admin_logged_in
    /\ txn[w] = Idle
    /\ IF edit_decision(timeslot_id, form) = "commit"
       THEN /\ txn' = [txn EXCEPT ![w] =
                         [op |-> "edit_timeslot", slot |-> timeslot_id,
                          loaded |-> loaded_attributes(slots[timeslot_id]),
                          form |-> form]]
       ELSE UNCHANGED txn
    /\ UNCHANGED <<dbvars, envvars, admin_logged_in, time_slot_options>>

\* An edit form whose capacity is also written into the counter.
edit_sets_counter(row, t) ==
    [row EXCEPT !.max_appointments = t.form.max_appointments,
                !.current_appointments = t.form.max_appointments]

\* The row after the UPDATE the unit of work emits: only the attributes whose assigned
\* value differs from the loaded one are written.
edited_row(row, t) ==
    [row EXCEPT
       !.date = IF t.form.date # t.loaded.date THEN t.form.date ELSE @,
       !.period = IF t.form.period # t.loaded.period THEN t.form.period ELSE @,
       !.barber_id = IF t.form.barber_id # t.loaded.barber_id THEN t.form.barber_id ELSE @,
       !.max_appointments =
          IF t.form.max_appointments # t.loaded.max_appointments
          THEN t.form.max_appointments ELSE @]

\* The session holds a change to flush.
edit_is_dirty(t) ==
    \/ t.form.date # t.loaded.date
    \/ t.form.period # t.loaded.period
    \/ t.form.barber_id # t.loaded.barber_id
    \/ t.form.max_appointments # t.loaded.max_appointments

\* The UPDATE succeeds: the row is still there (else StaleDataError), and the unique
\* key, the CHECK constraint and (where enforced) the barber foreign key hold.
EditFlushOK(t) ==
    /\ t.slot \in DOMAIN slots
    /\ date_period_barber_uc([slots EXCEPT ![t.slot] = edited_row(@, t)])
    /\ check_appointment_limit(edited_row(slots[t.slot], t))
    /\ ForeignKeysEnforced => t.form.barber_id \in DOMAIN barbers

\* db.session.commit() of edit_timeslot, or the rollback in its except branch.
EditTimeslotCommit(w) ==
    /\ txn[w].op = "edit_timeslot"
    /\ IF edit_is_dirty(txn[w]) /\ EditFlushOK(txn[w])
       THEN slots' = [slots EXCEPT ![txn[w].slot] = edited_row(@, txn[w])]
       ELSE UNCHANGED slots
    /\ txn' = [txn EXCEPT ![w] = Idle]
    /\ UNCHANGED <<barbers, services, appts, nextSlotId, nextApptId, envvars,
                   admin_logged_in, time_slot_options>>

\* --------------------------------------------------------- delete_timeslot

\* The guard of delete_timeslot on the counter the handler read.
has_booked_appointments(slot) == slot.current_appointments > 0

\* What delete_timeslot decides before it reaches db.session.delete(timeslot): 404,
\* the "Cannot delete timeslot" flash, or the delete.
delete_timeslot_decision(timeslot_id) ==
    IF timeslot_id \notin DOMAIN slots THEN "not_found"
    ELSE IF has_booked_appointments(slots[timeslot_id]) THEN "slot_has_appointments"
    ELSE "commit"

\* POST /admin/timeslot/<id>/delete up to the commit.
DeleteTimeslotBegin(w, timeslot_id) ==
    /\ admin_logged_in
    /\ txn[w] = Idle
    /\ IF delete_timeslot_decision(timeslot_id) = "commit"
       THEN txn' = [txn EXCEPT ![w] = [op |-> "delete_timeslot", slot |-> timeslot_id]]
       ELSE UNCHANGED txn
    /\ UNCHANGED <<dbvars, envvars, admin_logged_in, time_slot_options>>

\* The flush of the delete succeeds: no appointment row refers to the slot.
DeleteTimeslotFlushOK(t) == AppointmentsOf(appts, t.slot) = {}

\* db.session.delete(timeslot); db.session.commit(): the unit of work loads
\* timeslot.appointments and sets their time_slot_id to NULL, which the NOT NULL
\* column refuses (rollback); with no appointment it deletes the row.
DeleteTimeslotCommit(w) ==
    /\ txn[w].op = "delete_timeslot"
    /\ IF DeleteTimeslotFlushOK(txn[w])
       THEN slots' = Delete(slots, txn[w].slot)
       ELSE UNCHANGED slots
    /\ txn' = [txn EXCEPT ![w] = Idle]
    /\ UNCHANGED <<barbers, services, appts, nextSlotId, nextApptId, envvars,
                   admin_logged_in, time_slot_options>>

\* ----------------------------------------------------- generate_time_slots

\* Barber.query.filter_by(is_active=True).first(): the active barber of lowest id.
first_active_barber ==
    CHOOSE b \in DOMAIN barbers :
        barbers[b].is_active /\ \A c \in DOMAIN barbers : barbers[c].is_active => b <= c

\* The (date, period) pairs in the order the two loops visit them:
\* for i in range(days_ahead): for period in TimeSlotPeriod.
generate_loop(days_ahead) ==
    [k \in 1..(days_ahead * Len(TimeSlotPeriod)) |->
        [date |-> today + ((k - 1) \div Len(TimeSlotPeriod)),
         period |-> TimeSlotPeriod[((k - 1) % Len(TimeSlotPeriod)) + 1]]]

\* A loop that inserts every pair it visits, whether or not the slot exists.
loop_without_skip(days_ahead, barber_id) == generate_loop(days_ahead)

\* The pairs of the loop for which no slot of the barber exists yet.
slots_to_generate(days_ahead, barber_id) ==
    LET Missing(k) ==
            ~\E i \in DOMAIN slots : SlotKey(slots[i]) = <<k.date, k.period, barber_id>>
    IN SelectSeq(generate_loop(days_ahead), Missing)

generated_slot(k, barber_id) ==
    [date |-> k.date, period |-> k.period, barber_id |-> barber_id,
     is_available |-> TRUE, max_appointments |-> GeneratedCapacity,
     current_appointments |-> 0]

\* db.session.add of one TimeSlot per pair of new and the commit; the model hands
\* out slot ids up to last_id.
commit_generated(new, barber_id, last_id) ==
    /\ nextSlotId + Len(new) - 1 <= last_id
    /\ slots' = [i \in DOMAIN slots \cup (nextSlotId..(nextSlotId + Len(new) - 1)) |->
                   IF i \in DOMAIN slots THEN slots[i]
                   ELSE generated_slot(new[i - nextSlotId + 1], barber_id)]
    /\ nextSlotId' = nextSlotId + Len(new)

\* generate_time_slots(days_ahead) behind login_required (generate_new_timeslots):
\* one slot per missing (date, period) of the first active barber, one commit.
GenerateTimeSlots(days_ahead) ==
    /\ admin_logged_in
    /\ IF \E b \in DOMAIN barbers : barbers[b].is_active
       THEN commit_generated(slots_to_generate(days_ahead, first_active_barber),
                             first_active_barber, MaxSlotId)
       ELSE UNCHANGED <<slots, nextSlotId>>
    /\ UNCHANGED <<barbers, services, appts, nextApptId, envvars, admin_logged_in,
                   txn, time_slot_options>>

\* Largest days_ahead of the direct calls of generate_time_slots in the model.
MaxGenerateDays == 2

\* Slot ids for the direct calls: room for MaxGenerateDays + 1 days and a few more.
GenerateIdCap == Len(TimeSlotPeriod) * (MaxGenerateDays + 1) + MaxSlotId

\* generate_time_slots(days_ahead) called directly, as the seed-db command does
\* (app.py:991-999), without a session.
SeedDbGenerate(days_ahead) ==
    /\ IF \E b \in DOMAIN barbers : barbers[b].is_active
       THEN commit_generated(slots_to_generate(days_ahead, first_active_barber),
                             first_active_barber, GenerateIdCap)
       ELSE UNCHANGED <<slots, nextSlotId>>
    /\ UNCHANGED <<barbers, services, appts, nextApptId, envvars, admin_logged_in,
                   txn, time_slot_options>>

\* generate_time_slots of the routes module (models.py:221-292):
\* end_date = today + days_ahead; while current_date <= end_date: for period in
\* TimeSlotPeriod.
generate_loop_inclusive(days_ahead) ==
    [k \in 1..((days_ahead + 1) * Len(TimeSlotPeriod)) |->
        [date |-> today + ((k - 1) \div Len(TimeSlotPeriod)),
         period |-> TimeSlotPeriod[((k - 1) % Len(TimeSlotPeriod)) + 1]]]

\* The pairs of that loop whose key is not in existing_slots, the slots of the barber
\* dated today .. end_date read before the loop.
slots_to_generate_inclusive(days_ahead, barber_id) ==
    LET existing_slots ==
            {SlotKey(slots[i]) : i \in {j \in DOMAIN slots :
                /\ slots[j].date >= today
                /\ slots[j].date <= today + days_ahead
                /\ slots[j].barber_id = barber_id}}
        Missing(k) == <<k.date, k.period, barber_id>> \notin existing_slots
    IN SelectSeq(generate_loop_inclusive(days_ahead), Missing)

\* That generate_time_slots(days_ahead); with fewer than 20 new slots its batches are
\* the one commit at the end.
GenerateTimeSlotsInclusive(days_ahead) ==
    /\ IF \E b \in DOMAIN barbers : barbers[b].is_active
       THEN commit_generated(slots_to_generate_inclusive(days_ahead, first_active_barber),
                             first_active_barber, GenerateIdCap)
       ELSE UNCHANGED <<slots, nextSlotId>>
    /\ UNCHANGED <<barbers, services, appts, nextApptId, envvars, admin_logged_in,
                   txn, time_slot_options>>

\* ---------------------------------------- the booking form's slot listing

\* ORDER BY period: PostgreSQL compares a native ENUM by the position of the label in
\* CREATE TYPE (the declaration order); on SQLite the column is a VARCHAR holding the
\* member name and compares as a string.
period_sort_key(p) ==
    IF backend = "postgresql" THEN PeriodOrdinal(p) ELSE PeriodNameRank(p)

\* A query without the current_appointments < max_appointments filter.
FilterIgnoresCapacity(d) ==
    {i \in DOMAIN slots :
        /\ slots[i].date >= d
        /\ slots[i].date <= d + ListingWindowDays
        /\ slots[i].is_available}

\* The rows the availability query of book_appointment selects.
bookable_slots(d) ==
    {i \in DOMAIN slots :
        /\ slots[i].date >= d
        /\ slots[i].date <= d + ListingWindowDays
        /\ slots[i].is_available = TRUE
        /\ slots[i].current_appointments < slots[i].max_appointments}

\* row i may precede row j under ORDER BY date, period.
order_by_date_period(i, j) ==
    \/ slots[i].date < slots[j].date
    \/ /\ slots[i].date = slots[j].date
       /\ period_sort_key(slots[i].period) <= period_sort_key(slots[j].period)

\* The sequences the query may return: the selected ids, each once, in an order that
\* respects ORDER BY (rows that compare equal come in any order).
available_time_slots(d) ==
    {q \in [1..Cardinality(bookable_slots(d)) -> bookable_slots(d)] :
        /\ \A a, b \in DOMAIN q : a # b => q[a] # q[b]
        /\ \A a, b \in DOMAIN q : a < b => order_by_date_period(q[a], q[b])}

\* GET /book: run the query and render the form.
BookGet ==
    /\ time_slot_options' \in available_time_slots(today)
    /\ UNCHANGED <<dbvars, envvars, admin_logged_in, txn>>

\* ------------------------------------------------------------------ Spec
\* Every slot and appointment operation, two requests at a time.  Requests address
\* the slots 1 .. MaxTargetSlot; further slots exist through add_timeslot and
\* generate_time_slots and are read by every check on the whole table.  Worker w1
\* books, deletes appointments and edits slots; worker w2 books, deletes appointments
\* and deletes slots.

MaxTargetSlot == 1

Targets == 1..MaxTargetSlot

Next ==
    \/ \E c \in BOOLEAN : AdminLogin(c)
    \/ \E w \in {"w1", "w2"} : \E form \in BookForms(Targets) : BookBegin(w, form)
    \/ \E w \in {"w1", "w2"} : BookCommit(w)
    \/ \E w \in {"w1", "w2"} : \E a \in 1..MaxApptId : DeleteAppointmentBegin(w, a)
    \/ \E w \in {"w1", "w2"} : DeleteAppointmentCommit(w)
    \/ \E a \in 1..MaxApptId : \E st \in {"cancelled", "bogus"} :
          UpdateAppointmentStatus(a, st)
    \/ \E i \in Targets : ToggleTimeslotAvailability(i)
    \/ \E form \in SlotForms({today - 1, today}, Periods) : AddTimeslot(form)
    \/ \E i \in Targets : \E form \in CapacityForms(i) : EditTimeslotBegin("w1", i, form)
    \/ EditTimeslotCommit("w1")
    \/ \E i \in Targets : DeleteTimeslotBegin("w2", i)
    \/ DeleteTimeslotCommit("w2")
    \/ \E d \in 1..MaxDaysAhead : GenerateTimeSlots(d)

Spec == Init /\ [][Next]_vars

\* ---------------------------------------------------------------- SpecRace
\* Bookings, up to three at a time, on one slot that starts with spare capacity and as
\* many appointment rows as its counter says, while the admin switches the slot off
\* and on.

\* An appointment row as an earlier booking of service 1 on slot_id left it.
booked_appointment(slot_id) ==
    new_appointment([slot |-> slot_id, barber |-> 1, services |-> {1},
                     totals |-> CHOOSE t \in calculate_totals(services, {1}) : TRUE])

RaceInit ==
    /\ SeededStore
    /\ \E max \in 1..MaxCap : \E cur \in 0..(max - 1) :
         /\ slots = [i \in {1} |->
                       [generated_slot([date |-> today, period |-> "MORNING"], 1)
                          EXCEPT !.max_appointments = max, !.current_appointments = cur]]
         /\ appts = [a \in 1..cur |-> booked_appointment(1)]
         /\ nextApptId = cur + 1
    /\ nextSlotId = 2
    /\ admin_logged_in = TRUE
    /\ txn = [w \in Workers |-> Idle]
    /\ time_slot_options = <<>>

RaceNext ==
    \/ \E w \in Workers : \E form \in BookForms({1}) : BookBegin(w, form)
    \/ \E w \in Workers : BookCommit(w)
    \/ ToggleTimeslotAvailability(1)

SpecRace == RaceInit /\ [][RaceNext]_vars

\* ------------------------------------------------------------ SpecLifecycle
\* The life of appointments on the slots generated for today, with the admin logged
\* in: booking on slot 1, every status update, and deletion by two requests.

StatusForms == {"pending", "confirmed", "completed", "cancelled", "rescheduled", "no_show"}

LifecycleInit ==
    /\ SeededStore
    /\ slots = [i \in 1..Len(TimeSlotPeriod) |->
                  generated_slot([date |-> today, period |-> TimeSlotPeriod[i]], 1)]
    /\ appts = [i \in {} |-> 0]
    /\ nextSlotId = Len(TimeSlotPeriod) + 1
    /\ nextApptId = 1
    /\ admin_logged_in = TRUE
    /\ txn = [w \in Workers |-> Idle]
    /\ time_slot_options = <<>>

LifecycleNext ==
    \/ \E form \in BookForms({1}) : BookBegin("w1", form)
    \/ BookCommit("w1")
    \/ \E a \in 1..MaxApptId : \E st \in StatusForms : UpdateAppointmentStatus(a, st)
    \/ \E w \in {"w1", "w2"} : \E a \in 1..MaxApptId : DeleteAppointmentBegin(w, a)
    \/ \E w \in {"w1", "w2"} : DeleteAppointmentCommit(w)

SpecLifecycle == LifecycleInit /\ [][LifecycleNext]_vars

\* -------------------------------------------------------------- SpecListing
\* The booking form's listing over slots inside, on the edges of and outside the
\* listing window, open or switched off, with capacity 1 or 0, as the days pass.

\* Last day the clock reaches in the model.
MaxToday == 2

\* Midnight passes.
Tick ==
    /\ today < MaxToday
    /\ today' = today + 1
    /\ now' = now + 1
    /\ UNCHANGED <<backend, dbvars, admin_logged_in, txn, time_slot_options>>

ListingForms ==
    {[date |-> k[1], period |-> k[2], barber_id |-> 1, max_appointments |-> m] :
        k \in {<<today, "MORNING">>, <<today, "AFTERNOON">>,
               <<today + ListingWindowDays, "EVENING">>,
               <<today + ListingWindowDays + 1, "MORNING">>},
        m \in 0..1}

ListingNext ==
    \/ AdminLogin(TRUE)
    \/ \E form \in ListingForms : AddTimeslot(form)
    \/ \E i \in 1..MaxSlotId : ToggleTimeslotAvailability(i)
    \/ Tick
    \/ BookGet

SpecListing == Init /\ [][ListingNext]_vars

\* ------------------------------------------------------------- SpecGenerate
\* Both generate_time_slots functions, called directly for 1 .. MaxGenerateDays days,
\* on a table that the admin (logged in) also adds to, edits, toggles and deletes
\* from, and that takes bookings on slot 1.

GenerateInit ==
    /\ SeededStore
    /\ slots = [i \in {} |-> 0]
    /\ appts = [i \in {} |-> 0]
    /\ nextSlotId = 1
    /\ nextApptId = 1
    /\ admin_logged_in = TRUE
    /\ txn = [w \in Workers |-> Idle]
    /\ time_slot_options = <<>>

GenerateNext ==
    \/ \E d \in 1..MaxGenerateDays : SeedDbGenerate(d)
    \/ \E d \in 1..MaxGenerateDays : GenerateTimeSlotsInclusive(d)
    \/ \E form \in SlotForms({today}, {"MORNING", "EVENING"}) : AddTimeslot(form)
    \/ \E form \in SlotForms({today, today + 1}, {"EVENING"}) :
          EditTimeslotBegin("w1", 1, form)
    \/ EditTimeslotCommit("w1")
    \/ ToggleTimeslotAvailability(1)
    \/ DeleteTimeslotBegin("w2", 1)
    \/ DeleteTimeslotCommit("w2")
    \/ \E form \in BookForms({1}) : BookBegin("w3", form)
    \/ BookCommit("w3")

SpecGenerate == GenerateInit /\ [][GenerateNext]_vars


\* ------------------------------------------------- barbers and services

\* toggle_barber
ToggleBarber(barber_id) ==
    /\ admin_logged_in
    /\ IF barber_id \in DOMAIN barbers
       THEN barbers' = [barbers EXCEPT ![barber_id].is_active = ~@]
       ELSE UNCHANGED barbers
    /\ UNCHANGED <<services, slots, appts, nextSlotId, nextApptId, envvars,
                   admin_logged_in, txn, time_slot_options>>

\* toggle_service_status
ToggleServiceStatus(service_id) ==
    /\ admin_logged_in
    /\ IF service_id \in DOMAIN services
       THEN services' = [services EXCEPT ![service_id].is_active = ~@]
       ELSE UNCHANGED services
    /\ UNCHANGED <<barbers, slots, appts, nextSlotId, nextApptId, envvars,
                   admin_logged_in, txn, time_slot_options>>



\* The largest id of a service: the services of SpecTotals, and the services the
\* admin may add.
MaxServiceId == 3

\* The POST forms tried for admin_edit_service: a price in hundredths (one negative),
\* a duration (one below the minimum), the is_active checkbox; one form lacks a
\* field, one carries a name that is empty or that another service has.
ServiceForms ==
    {[missing |-> FALSE, name_ok |-> TRUE, price |-> p, duration_minutes |-> d,
      is_active |-> b] : p \in {-100, 1200000}, d \in {10, 60}, b \in BOOLEAN}
    \cup {[missing |-> TRUE, name_ok |-> TRUE, price |-> 1200000, duration_minutes |-> 60,
           is_active |-> TRUE],
          [missing |-> FALSE, name_ok |-> FALSE, price |-> 1200000, duration_minutes |-> 60,
           is_active |-> TRUE]}

\* Service.validate_price: raises ValueError for a negative price.
validate_price(price) == price >= 0

\* Service.validate_duration: raises ValueError below 15 minutes.
validate_duration(duration) == duration >= 15

\* The assignments and the commit of admin_edit_service succeed: float() and int()
\* parse the fields, the validators accept them, and the name is there and unique.
service_saves(form) ==
    /\ ~form.missing
    /\ validate_price(form.price)
    /\ validate_duration(form.duration_minutes)
    /\ form.name_ok

\* The Service row the handler leaves: price, duration_minutes and is_active from the
\* form.
saved_service(form) ==
    [price |-> form.price, duration_minutes |-> form.duration_minutes,
     is_active |-> form.is_active]

\* The ids the store may give a new service: above every id it has given; a failed
\* INSERT on PostgreSQL uses one up.
new_service_ids == {i \in 1..MaxServiceId : \A s \in DOMAIN services : i > s}

\* POST /admin/service/<id> (service_id > 0) and POST /admin/service/new
\* (service_id = 0): save the row, or roll back on any exception.
AdminEditService(service_id, form) ==
    /\ admin_logged_in
    /\ IF service_id # 0 /\ service_id \notin DOMAIN services
       THEN UNCHANGED services
       ELSE IF ~service_saves(form)
       THEN UNCHANGED services
       ELSE IF service_id # 0
       THEN services' = [services EXCEPT ![service_id] = saved_service(form)]
       ELSE \E id \in new_service_ids : services' = Insert(services, id, saved_service(form))
    /\ UNCHANGED <<barbers, slots, appts, nextSlotId, nextApptId, envvars,
                   admin_logged_in, txn, time_slot_options>>


\* The largest id of a barber the admin may add.
MaxBarberId == 2

\* The POST forms tried for edit_barber: the is_active checkbox; valid says that name
\* and phone are there and the email is well-formed and no other barber's.
BarberForms == {[valid |-> v, is_active |-> b] : v \in BOOLEAN, b \in BOOLEAN}

\* The ids the store may give a new barber: above every id it has given.
new_barber_ids == {i \in 1..MaxBarberId : \A b \in DOMAIN barbers : i > b}

\* POST /admin/barber/<id> (barber_id > 0) and POST /admin/barber/new (barber_id = 0):
\* the handler has no try; validate_email or the commit raising ends the request with
\* nothing committed.
EditBarber(barber_id, form) ==
    /\ admin_logged_in
    /\ IF barber_id # 0 /\ barber_id \notin DOMAIN barbers
       THEN UNCHANGED barbers
       ELSE IF ~form.valid
       THEN UNCHANGED barbers
       ELSE IF barber_id # 0
       THEN barbers' = [barbers EXCEPT ![barber_id] = [is_active |-> form.is_active]]
       ELSE \E id \in new_barber_ids :
               barbers' = Insert(barbers, id, [is_active |-> form.is_active])
    /\ UNCHANGED <<services, slots, appts, nextSlotId, nextApptId, envvars,
                   admin_logged_in, txn, time_slot_options>>

\* delete_barber: db.session.delete(barber) first sets barber_id of the barber's
\* time slots and appointments to NULL (the relationships have no delete cascade);
\* both columns are NOT NULL, so the flush fails and the request is rolled back
\* unless the barber has neither.
DeleteBarber(barber_id) ==
    /\ admin_logged_in
    /\ IF /\ barber_id \in DOMAIN barbers
          /\ \A i \in DOMAIN slots : slots[i].barber_id # barber_id
          /\ \A a \in DOMAIN appts : appts[a].barber_id # barber_id
       THEN barbers' = Delete(barbers, barber_id)
       ELSE UNCHANGED barbers
    /\ UNCHANGED <<services, slots, appts, nextSlotId, nextApptId, envvars,
                   admin_logged_in, txn, time_slot_options>>

\* -------------------------------------------------------------- SpecCounter
\* Every request that can reach a slot row, on one slot of capacity 2: bookings,
\* appointment deletions, cancellations, capacity edits, the availability switch,
\* generation, and the barber and service routes, with a second barber that owns
\* nothing.

CounterInit ==
    /\ backend \in {"postgresql", "sqlite"}
    /\ today = 1
    /\ now = 1
    /\ barbers = [b \in {1, 2} |-> [is_active |-> b = 1]]
    /\ services = [s \in {1} |->
                     [price |-> 1500000, duration_minutes |-> 45, is_active |-> TRUE]]
    /\ slots = [i \in {1} |-> generated_slot([date |-> today, period |-> "MORNING"], 1)]
    /\ appts = [i \in {} |-> 0]
    /\ nextSlotId = 2
    /\ nextApptId = 1
    /\ admin_logged_in = TRUE
    /\ txn = [w \in Workers |-> Idle]
    /\ time_slot_options = <<>>

CounterNext ==
    \/ \E form \in BookForms({1}) : BookBegin("w1", form)
    \/ BookCommit("w1")
    \/ \E a \in 1..MaxApptId : DeleteAppointmentBegin("w2", a)
    \/ DeleteAppointmentCommit("w2")
    \/ \E a \in 1..MaxApptId : UpdateAppointmentStatus(a, "cancelled")
    \/ ToggleTimeslotAvailability(1)
    \/ \E form \in CapacityForms(1) : EditTimeslotBegin("w3", 1, form)
    \/ EditTimeslotCommit("w3")
    \/ GenerateTimeSlots(MaxDaysAhead)
    \/ \E b \in DOMAIN barbers : ToggleBarber(b)
    \/ ToggleServiceStatus(1)
    \/ \E b \in DOMAIN barbers : DeleteBarber(b)

SpecCounter == CounterInit /\ [][CounterNext]_vars

\* --------------------------------------------------------------- SpecStatus
\* Status updates of one appointment, confirmed at time 1, while the clock runs.

\* Last instant the clock reaches in the model.
MaxNow == 3

\* Time passes between two requests.
ClockTick ==
    /\ now < MaxNow
    /\ now' = now + 1
    /\ UNCHANGED <<dbvars, backend, today, admin_logged_in, txn, time_slot_options>>

\* The status values submitted: the six names, one in another case, one unknown, and
\* a form without the field ("None").
StatusInputs == StatusForms \cup {"Completed", "bogus", "None"}

StatusInit ==
    /\ SeededStore
    /\ slots = [i \in {1} |->
                  [generated_slot([date |-> today, period |-> "MORNING"], 1)
                     EXCEPT !.current_appointments = 1]]
    /\ appts = [i \in {1} |-> update_status(booked_appointment(1), "CONFIRMED")]
    /\ nextSlotId = 2
    /\ nextApptId = 2
    /\ admin_logged_in = TRUE
    /\ txn = [w \in Workers |-> Idle]
    /\ time_slot_options = <<>>

StatusNext ==
    \/ ClockTick
    \/ \E a \in 1..MaxApptId : \E st \in StatusInputs : UpdateAppointmentStatus(a, st)

SpecStatus == StatusInit /\ [][StatusNext]_vars

\* ----------------------------------------------------------------- SpecKeys
\* add_timeslot, edit_timeslot and generate_time_slots as concurrent requests: each
\* reads the table, and commits after the others may have committed.

\* add_timeslot up to db.session.commit(): the pre-checks on the table as read.
AddTimeslotBegin(w, form) ==
    /\ admin_logged_in
    /\ txn[w] = Idle
    /\ IF add_decision(form) = "commit"
       THEN txn' = [txn EXCEPT ![w] = [op |-> "add_timeslot", form |-> form]]
       ELSE UNCHANGED txn
    /\ UNCHANGED <<dbvars, envvars, admin_logged_in, time_slot_options>>

\* db.session.commit() of add_timeslot, or the rollback in its except branch.
AddTimeslotCommit(w) ==
    /\ txn[w].op = "add_timeslot"
    /\ IF /\ AddFlushOK(txn[w].form)
          /\ ForeignKeysEnforced => txn[w].form.barber_id \in DOMAIN barbers
       THEN /\ nextSlotId <= MaxSlotId
            /\ slots' = Insert(slots, nextSlotId, new_timeslot(txn[w].form))
            /\ nextSlotId' = nextSlotId + 1
       ELSE UNCHANGED <<slots, nextSlotId>>
    /\ txn' = [txn EXCEPT ![w] = Idle]
    /\ UNCHANGED <<barbers, services, appts, nextApptId, envvars, admin_logged_in,
                   time_slot_options>>

\* generate_new_timeslots up to the commit: the existence tests of the loop on the
\* table as read.
GenerateBegin(w, days_ahead) ==
    /\ admin_logged_in
    /\ txn[w] = Idle
    /\ IF \E b \in DOMAIN barbers : barbers[b].is_active
       THEN txn' = [txn EXCEPT ![w] =
                      [op |-> "generate", barber |-> first_active_barber,
                       new |-> slots_to_generate(days_ahead, first_active_barber)]]
       ELSE UNCHANGED txn
    /\ UNCHANGED <<dbvars, envvars, admin_logged_in, time_slot_options>>

\* The table after the INSERTs of a generate request.
with_generated(t) ==
    [i \in DOMAIN slots \cup (nextSlotId..(nextSlotId + Len(t.new) - 1)) |->
        IF i \in DOMAIN slots THEN slots[i]
        ELSE generated_slot(t.new[i - nextSlotId + 1], t.barber)]

\* db.session.commit() of generate_time_slots; a refused INSERT raises, and
\* generate_new_timeslots rolls the whole request back.
GenerateCommit(w) ==
    /\ txn[w].op = "generate"
    /\ IF /\ date_period_barber_uc(with_generated(txn[w]))
          /\ ForeignKeysEnforced => txn[w].barber \in DOMAIN barbers
       THEN commit_generated(txn[w].new, txn[w].barber, MaxSlotId)
       ELSE UNCHANGED <<slots, nextSlotId>>
    /\ txn' = [txn EXCEPT ![w] = Idle]
    /\ UNCHANGED <<barbers, services, appts, nextApptId, envvars, admin_logged_in,
                   time_slot_options>>

\* The add and edit forms of SpecKeys: every period of today, one capacity.
KeyForms == {f \in SlotForms({today}, Periods) : f.max_appointments = 1}

KeysInit ==
    /\ SeededStore
    /\ slots = [i \in {} |-> 0]
    /\ appts = [i \in {} |-> 0]
    /\ nextSlotId = 1
    /\ nextApptId = 1
    /\ admin_logged_in = TRUE
    /\ txn = [w \in Workers |-> Idle]
    /\ time_slot_options = <<>>

KeysNext ==
    \/ \E w \in {"w1", "w2"} : \E form \in KeyForms : AddTimeslotBegin(w, form)
    \/ \E w \in {"w1", "w2"} : AddTimeslotCommit(w)
    \/ \E w \in {"w1", "w2"} : \E i \in 1..MaxSlotId : \E form \in KeyForms :
          EditTimeslotBegin(w, i, form)
    \/ \E w \in {"w1", "w2"} : EditTimeslotCommit(w)
    \/ GenerateBegin("w3", MaxDaysAhead)
    \/ GenerateCommit("w3")

SpecKeys == KeysInit /\ [][KeysNext]_vars

\* ----------------------------------------------------------------- SpecPast
\* Slots are added, generated and edited while the days pass, so that slots created
\* for today lie in the past later on.

\* The add and edit forms of SpecPast: yesterday or today, in the morning.
PastForms ==
    {[date |-> d, period |-> "MORNING", barber_id |-> 1, max_appointments |-> m] :
        d \in {today - 1, today}, m \in 1..MaxCap}

PastInit ==
    /\ SeededStore
    /\ slots = [i \in {} |-> 0]
    /\ appts = [i \in {} |-> 0]
    /\ nextSlotId = 1
    /\ nextApptId = 1
    /\ admin_logged_in = TRUE
    /\ txn = [w \in Workers |-> Idle]
    /\ time_slot_options = <<>>

PastNext ==
    \/ Tick
    \/ \E form \in PastForms : AddTimeslot(form)
    \/ SeedDbGenerate(MaxDaysAhead)
    \/ \E form \in CapacityForms(1) \cup PastForms : EditTimeslotBegin("w1", 1, form)
    \/ EditTimeslotCommit("w1")

SpecPast == PastInit /\ [][PastNext]_vars

\* -------------------------------------------------------------- SpecTotals
\* Bookings of every choice of services from a price list that holds the two seeded
\* prices of the example and two amounts no double holds exactly.

\* The (price, duration) rows the services table is drawn from.
TotalsServices ==
    {[price |-> 1500000, duration_minutes |-> 45, is_active |-> TRUE],
     [price |-> 1000000, duration_minutes |-> 30, is_active |-> TRUE],
     [price |-> 10, duration_minutes |-> 20, is_active |-> TRUE],
     [price |-> 15, duration_minutes |-> 25, is_active |-> TRUE]}

TotalsForms ==
    {[missing |-> FALSE, timeSlot |-> 1, servicesNeeded |-> sv, barber |-> 1,
      format_ok |-> TRUE] : sv \in SUBSET (1..MaxServiceId)}

TotalsInit ==
    /\ backend \in {"postgresql", "sqlite"}
    /\ today = 1
    /\ now = 1
    /\ barbers = [b \in {1} |-> [is_active |-> TRUE]]
    /\ services \in [1..MaxServiceId -> TotalsServices]
    /\ slots = [i \in {1} |-> generated_slot([date |-> today, period |-> "MORNING"], 1)]
    /\ appts = [i \in {} |-> 0]
    /\ nextSlotId = 2
    /\ nextApptId = 1
    /\ admin_logged_in = FALSE
    /\ txn = [w \in Workers |-> Idle]
    /\ time_slot_options = <<>>

TotalsNext ==
    \/ \E form \in TotalsForms : BookBegin("w1", form)
    \/ BookCommit("w1")

SpecTotals == TotalsInit /\ [][TotalsNext]_vars


\* ------------------------------------------------------------ SpecServices
\* Appointments booked on one slot while the admin edits, adds and toggles services,
\* updates statuses and deletes appointments.

ServicesInit ==
    /\ SeededStore
    /\ slots = [i \in {1} |-> generated_slot([date |-> today, period |-> "MORNING"], 1)]
    /\ appts = [i \in {} |-> 0]
    /\ nextSlotId = 2
    /\ nextApptId = 1
    /\ admin_logged_in = TRUE
    /\ txn = [w \in Workers |-> Idle]
    /\ time_slot_options = <<>>

ServicesNext ==
    \/ \E form \in BookForms({1}) : BookBegin("w1", form)
    \/ BookCommit("w1")
    \/ \E s \in 0..MaxServiceId : \E form \in ServiceForms : AdminEditService(s, form)
    \/ \E s \in 1..MaxServiceId : ToggleServiceStatus(s)
    \/ \E a \in 1..MaxApptId : \E st \in {"confirmed", "cancelled"} :
          UpdateAppointmentStatus(a, st)
    \/ \E a \in 1..MaxApptId : DeleteAppointmentBegin("w2", a)
    \/ DeleteAppointmentCommit("w2")

SpecServices == ServicesInit /\ [][ServicesNext]_vars


\* ---------------------------------------------------------------- SpecAuth
\* Every admin route and the public booking, tried with and without a logged-in
\* session: the admin logs in (with right and wrong credentials) and out while
\* requests are made on the one seeded slot, the barbers and the services.

AuthInit ==
    /\ SeededStore
    /\ slots = [i \in {1} |-> generated_slot([date |-> today, period |-> "MORNING"], 1)]
    /\ appts = [i \in {} |-> 0]
    /\ nextSlotId = 2
    /\ nextApptId = 1
    /\ admin_logged_in = FALSE
    /\ txn = [w \in Workers |-> Idle]
    /\ time_slot_options = <<>>

AuthNext ==
    \/ \E c \in BOOLEAN : AdminLogin(c)
    \/ AdminLogout
    \/ \E form \in BookForms({1}) : BookBegin("w1", form)
    \/ BookCommit("w1")
    \/ \E a \in 1..MaxApptId : DeleteAppointmentBegin("w2", a)
    \/ DeleteAppointmentCommit("w2")
    \/ \E a \in 1..MaxApptId : UpdateAppointmentStatus(a, "cancelled")
    \/ ToggleTimeslotAvailability(1)
    \/ AddTimeslot([date |-> today, period |-> "EVENING", barber_id |-> 1,
                    max_appointments |-> 1])
    \/ \E form \in CapacityForms(1) : EditTimeslotBegin("w2", 1, form)
    \/ EditTimeslotCommit("w2")
    \/ \E i \in 1..2 : DeleteTimeslotBegin("w2", i)
    \/ DeleteTimeslotCommit("w2")
    \/ GenerateTimeSlots(MaxDaysAhead)
    \/ \E b \in {0, MaxBarberId} : \E form \in BarberForms : EditBarber(b, form)
    \/ ToggleBarber(MaxBarberId)
    \/ \E b \in 1..MaxBarberId : DeleteBarber(b)
    \/ \E form \in ServiceForms : AdminEditService(2, form)
    \/ ToggleServiceStatus(2)

SpecAuth == AuthInit /\ [][AuthNext]_vars


\* -------------------------------------------------------------- SpecWindow
\* Bookings for any slot id while the days pass: slots are added for today, for the
\* last day of the listing window and for the day after it, switched off and on, and
\* the booking form is rendered and posted.

WindowForms == {f \in ListingForms : f.max_appointments = 1}

WindowInit ==
    /\ SeededStore
    /\ slots = [i \in {} |-> 0]
    /\ appts = [i \in {} |-> 0]
    /\ nextSlotId = 1
    /\ nextApptId = 1
    /\ admin_logged_in = TRUE
    /\ txn = [w \in Workers |-> Idle]
    /\ time_slot_options = <<>>

WindowNext ==
    \/ Tick
    \/ \E form \in WindowForms : AddTimeslot(form)
    \/ \E i \in 1..MaxSlotId : ToggleTimeslotAvailability(i)
    \/ BookGet
    \/ \E form \in BookForms(1..MaxSlotId) : BookBegin("w1", form)
    \/ BookCommit("w1")

SpecWindow == WindowInit /\ [][WindowNext]_vars

\* =================================================================== claims

\* ----- C1
\* C1: in every reachable state of Spec (every interleaving of booking, appointment
\* deletion, status update, add, edit, delete, toggle and generate, two requests at a
\* time), every TimeSlot row has 0 <= current_appointments <= max_appointments.
C1_CounterWithinCapacity ==
    \A i \in DOMAIN slots :
        /\ 0 <= slots[i].current_appointments
        /\ slots[i].current_appointments <= slots[i].max_appointments

\* An edit_timeslot that read the slot and is about to lower max_appointments below
\* the counter, because a booking on the same slot committed after the edit's read.
C1_Witness ==
    \E w \in Workers :
        /\ txn[w].op = "edit_timeslot"
        /\ txn[w].slot \in DOMAIN slots
        /\ txn[w].form.max_appointments < slots[txn[w].slot].current_appointments
        /\ txn[w].form.max_appointments < txn[w].loaded.max_appointments

\* ----- C2
\* C2: in every committed state, each slot's current_appointments equals the number
\* of Appointment rows whose time_slot_id is that slot.
C2_CounterEqualsRows ==
    \A i \in DOMAIN slots :
        slots[i].current_appointments = Cardinality(AppointmentsOf(appts, i))

\* ----- C3
\* C3: in SpecRace, whenever n bookings of the same slot are in flight together (each
\* has passed the admission pre-check) while the slot has c units left, 0 < c < n,
\* and k appointment rows exist, then once no booking is in flight any more exactly
\* c appointments have been added (k + c rows) and the counter equals
\* max_appointments.
C3_ExactlyRemainingCapacityCommits ==
    \A n \in 2..Cardinality(Workers) : \A c \in 1..(n - 1) : \A k \in 0..MaxApptId :
        []( ( /\ Cardinality({w \in Workers : txn[w].op = "book" /\ txn[w].slot = 1}) = n
              /\ slots[1].max_appointments - slots[1].current_appointments = c
              /\ Cardinality(DOMAIN appts) = k )
            => []( InFlight("book") = {}
                   => /\ Cardinality(AppointmentsOf(appts, 1)) = k + c
                      /\ slots[1].current_appointments = slots[1].max_appointments ) )

\* A booking that passed the pre-check is still in flight while the slot has filled
\* up: it lost the race and its commit will be refused.
C3_Witness ==
    \E w \in Workers :
        /\ txn[w].op = "book"
        /\ slots[txn[w].slot].current_appointments = slots[txn[w].slot].max_appointments
        /\ Cardinality(DOMAIN appts) = slots[txn[w].slot].max_appointments

\* ----- C4
\* C4: every book_appointment that commits an appointment for slot S leaves S with
\* current_appointments one higher than before and every other slot's counter as it
\* was.
C4_BookingAddsOneToItsSlot ==
    [][\A w \in Workers :
          (BookCommit(w) /\ nextApptId' # nextApptId) =>
              /\ txn[w].slot \in DOMAIN slots
              /\ DOMAIN slots' = DOMAIN slots
              /\ \A i \in DOMAIN slots :
                    slots'[i].current_appointments =
                       slots[i].current_appointments + (IF i = txn[w].slot THEN 1 ELSE 0)
      ]_vars

\* ----- C5
\* C5: a delete_appointment that commits on an appointment row of slot S, whatever
\* the row's status, leaves no such appointment, lowers S.current_appointments by one
\* unless it already is 0 (then it stays 0), and leaves every other slot as it was.
C5_DeleteReleasesOneUnit ==
    [][\A w \in Workers :
          (DeleteAppointmentCommit(w) /\ txn[w].appt \in DOMAIN appts) =>
              /\ txn[w].appt \notin DOMAIN appts'
              /\ DOMAIN slots' = DOMAIN slots
              /\ \A i \in DOMAIN slots :
                    IF i = appts[txn[w].appt].time_slot_id
                    THEN /\ slots'[i].current_appointments >= 0
                         /\ slots'[i].current_appointments =
                               IF slots[i].current_appointments > 0
                               THEN slots[i].current_appointments - 1
                               ELSE 0
                    ELSE slots'[i] = slots[i]
      ]_vars

\* A delete_appointment has read a COMPLETED appointment whose slot counts it, after
\* another appointment has been deleted and released (both ids are spent, one row
\* is left and the counter is 1).
C5_Witness ==
    \E w \in Workers :
        /\ txn[w].op = "delete_appointment"
        /\ txn[w].appt \in DOMAIN appts
        /\ appts[txn[w].appt].status = "COMPLETED"
        /\ nextApptId > MaxApptId
        /\ Cardinality(DOMAIN appts) = 1
        /\ slots[txn[w].slot].current_appointments = 1

\* ----- C6
\* C6: a complete booking form for a slot whose current_appointments equals
\* max_appointments is answered with the slot-unavailable rejection; no booking
\* proceeds past the pre-check on a slot that is full when it is read; and a booking
\* that reaches its commit when the slot is full adds no appointment (with its
\* service associations) and leaves every slot as it was.
C6_FullSlotRejected ==
    /\ [](\A form \in BookForms(Targets) :
            ( /\ ~form.missing
              /\ form.servicesNeeded # {}
              /\ form.timeSlot \in DOMAIN slots
              /\ slots[form.timeSlot].current_appointments =
                    slots[form.timeSlot].max_appointments )
            => book_decision(form) = "slot_unavailable")
    /\ [][\A w \in Workers :
            (txn[w] = Idle /\ txn'[w].op = "book") =>
                slots[txn'[w].slot].current_appointments #
                    slots[txn'[w].slot].max_appointments]_vars
    /\ [][\A w \in Workers :
            ( /\ BookCommit(w)
              /\ txn[w].slot \in DOMAIN slots
              /\ slots[txn[w].slot].current_appointments =
                    slots[txn[w].slot].max_appointments )
            => UNCHANGED <<appts, slots, nextApptId>>]_vars

\* A slot that is open and full (max_appointments bookings on it) while a worker is
\* free to post a booking form for it.
C6_Witness ==
    \E i \in Targets :
        /\ i \in DOMAIN slots
        /\ slots[i].is_available
        /\ slots[i].max_appointments > 0
        /\ slots[i].current_appointments = slots[i].max_appointments
        /\ Cardinality(AppointmentsOf(appts, i)) = slots[i].max_appointments
        /\ txn["w1"] = Idle

\* ----- C7
\* C7: a booking form with the required fields, well-formed values, an existing
\* barber and an active service, for an open slot with current_appointments <
\* max_appointments, reaches the commit; the request carries the form's slot and
\* barber; a commit on a slot that still has room adds the appointment; and every
\* appointment added has status PENDING, the request's slot and barber, and
\* confirmed_at, completed_at and cancelled_at unset.
C7_NewAppointmentPending ==
    /\ [](\A form \in BookForms(Targets) :
            ( /\ ~form.missing
              /\ form.format_ok
              /\ form.barber \in DOMAIN barbers
              /\ selected_services(form) # {}
              /\ form.timeSlot \in DOMAIN slots
              /\ slots[form.timeSlot].is_available
              /\ slots[form.timeSlot].current_appointments <
                    slots[form.timeSlot].max_appointments )
            => book_decision(form) = "commit")
    /\ [][\A w \in Workers : \A form \in BookForms(Targets) :
            (txn'[w] # txn[w] /\ BookBegin(w, form)) =>
                /\ txn'[w].slot = form.timeSlot
                /\ txn'[w].barber = form.barber]_vars
    /\ [][\A w \in Workers :
            ( /\ BookCommit(w)
              /\ txn[w].slot \in DOMAIN slots
              /\ slots[txn[w].slot].current_appointments <
                    slots[txn[w].slot].max_appointments )
            => DOMAIN appts' = DOMAIN appts \cup {nextApptId}]_vars
    /\ [][\A w \in Workers :
            (BookCommit(w) /\ nextApptId' # nextApptId) =>
                /\ DOMAIN appts' = DOMAIN appts \cup {nextApptId}
                /\ appts'[nextApptId].status = "PENDING"
                /\ appts'[nextApptId].time_slot_id = txn[w].slot
                /\ appts'[nextApptId].barber_id = txn[w].barber
                /\ appts'[nextApptId].confirmed_at = None
                /\ appts'[nextApptId].completed_at = None
                /\ appts'[nextApptId].cancelled_at = None]_vars

\* A slot with max_appointments = 2 that has taken its second booking: both
\* appointments are there, the later one still PENDING.
C7_Witness ==
    \E i \in DOMAIN slots : \E a \in DOMAIN appts :
        /\ slots[i].max_appointments = 2
        /\ slots[i].current_appointments = 2
        /\ Cardinality(AppointmentsOf(appts, i)) = 2
        /\ a = nextApptId - 1
        /\ appts[a].time_slot_id = i
        /\ appts[a].status = "PENDING"

\* ----- C8
\* C8: whatever the slot table holds, every result the availability query of
\* book_appointment may return lists, each once, exactly the slots dated within
\* today .. today + ListingWindowDays (both ends included) that are open and have
\* current_appointments < max_appointments, so no switched-off and no full slot;
\* and rendering the form changes nothing but the rendered list.
C8_ListingExactlyBookable ==
    /\ [] /\ available_time_slots(today) # {}
          /\ \A q \in available_time_slots(today) :
                /\ {q[k] : k \in DOMAIN q} =
                      {i \in DOMAIN slots :
                          /\ today <= slots[i].date
                          /\ slots[i].date <= today + ListingWindowDays
                          /\ slots[i].is_available
                          /\ slots[i].current_appointments < slots[i].max_appointments}
                /\ \A a, b \in DOMAIN q : q[a] = q[b] => a = b
                /\ \A k \in DOMAIN q :
                      /\ slots[q[k]].is_available
                      /\ slots[q[k]].current_appointments < slots[q[k]].max_appointments
    /\ [][BookGet => UNCHANGED <<dbvars, envvars, admin_logged_in, txn>>]_vars

\* The form has been rendered with a slot of the last day of the window on it while
\* the table also holds a slot that is out of the window, switched off, or full.
C8_Witness ==
    /\ \E k \in DOMAIN time_slot_options :
          /\ time_slot_options[k] \in DOMAIN slots
          /\ slots[time_slot_options[k]].date = today + ListingWindowDays
    /\ \E i \in DOMAIN slots : ~slots[i].is_available /\ slots[i].date = today
    /\ \E i \in DOMAIN slots :
          slots[i].current_appointments = slots[i].max_appointments
    /\ \E i \in DOMAIN slots :
          slots[i].date < today \/ slots[i].date > today + ListingWindowDays
    /\ time_slot_options \in available_time_slots(today)

\* ----- C9
\* C9: every result of the availability query is in ascending date order and, within
\* one date, in the declared order of TimeSlotPeriod: MORNING, AFTERNOON, EVENING.
C9_ListingInDeclaredPeriodOrder ==
    \A q \in available_time_slots(today) :
        \A a, b \in DOMAIN q :
            a < b =>
                \/ slots[q[a]].date < slots[q[b]].date
                \/ /\ slots[q[a]].date = slots[q[b]].date
                   /\ PeriodOrdinal(slots[q[a]].period) <= PeriodOrdinal(slots[q[b]].period)

\* ----- C10
\* C10: delete_timeslot on a slot with current_appointments > 0 answers with the
\* cannot-delete rejection and starts nothing; a delete that reaches its commit when
\* the counter is above 0 leaves the slots and the appointments as they were; and a
\* delete that reaches its commit when the counter is 0 removes the slot.
C10_DeleteTimeslotGuard ==
    /\ [](\A i \in DOMAIN slots :
            slots[i].current_appointments > 0
            => delete_timeslot_decision(i) = "slot_has_appointments")
    /\ [][\A w \in Workers :
            ( /\ DeleteTimeslotCommit(w)
              /\ txn[w].slot \in DOMAIN slots
              /\ slots[txn[w].slot].current_appointments > 0 )
            => UNCHANGED <<slots, appts>>]_vars
    /\ [][\A w \in Workers :
            ( /\ DeleteTimeslotCommit(w)
              /\ txn[w].slot \in DOMAIN slots
              /\ slots[txn[w].slot].current_appointments = 0 )
            => /\ txn[w].slot \notin DOMAIN slots'
               /\ appts' = appts]_vars

\* ----- C11
\* C11: either generate_time_slots, called with days_ahead = d on a table without
\* slots while a barber is active, leaves exactly 3 * d slots: one per period for
\* each day of today .. today + d - 1, none dated today + d or later, each with
\* max_appointments 2, current_appointments 0 and is_available true.
C11_GenerateThreeSlotsPerDay ==
    [][\A d \in 1..MaxGenerateDays :
          ( /\ SeedDbGenerate(d) \/ GenerateTimeSlotsInclusive(d)
            /\ DOMAIN slots = {}
            /\ \E b \in DOMAIN barbers : barbers[b].is_active )
          => /\ Cardinality(DOMAIN slots') = 3 * d
             /\ \A day \in today..(today + d - 1) : \A p \in Periods :
                   \E i \in DOMAIN slots' :
                       slots'[i].date = day /\ slots'[i].period = p
             /\ \A i \in DOMAIN slots' :
                   /\ slots'[i].date < today + d
                   /\ slots'[i].max_appointments = 2
                   /\ slots'[i].current_appointments = 0
                   /\ slots'[i].is_available = TRUE
      ]_vars

\* ----- C12
\* C12: a call of generate_time_slots (either version) leaves every slot that existed
\* before it exactly as it was (key, capacity, counter, availability) and touches no
\* appointment, and the same call made again right after it has nothing to add.
\* (A call that inserts nothing changes nothing; one that inserts moves nextSlotId.)
C12_GenerateIdempotentAdditive ==
    [][nextSlotId' # nextSlotId =>
       \A d \in 1..MaxGenerateDays :
          /\ (SeedDbGenerate(d) \/ GenerateTimeSlotsInclusive(d))
                => /\ \A i \in DOMAIN slots : i \in DOMAIN slots' /\ slots'[i] = slots[i]
                   /\ appts' = appts
          /\ SeedDbGenerate(d) => slots_to_generate(d, first_active_barber)' = << >>
          /\ GenerateTimeSlotsInclusive(d)
                => slots_to_generate_inclusive(d, first_active_barber)' = << >>
      ]_vars

\* Slot 1 was added by hand with a capacity the generator never uses, has been booked
\* and switched off, and the generator has filled the table around it.
C12_Witness ==
    /\ 1 \in DOMAIN slots
    /\ slots[1].max_appointments # GeneratedCapacity
    /\ slots[1].current_appointments > 0
    /\ ~slots[1].is_available
    /\ Cardinality(DOMAIN slots) > MaxSlotId
    /\ slots_to_generate(MaxGenerateDays, first_active_barber) = << >>

C14_FailedBookingChangesNothing ==
    /\ [](\A w \in {"w1", "w2"} : \A form \in BookForms(Targets) :
            ( \/ form.missing
              \/ form.servicesNeeded = {}
              \/ form.timeSlot \notin DOMAIN slots
              \/ form.timeSlot \in DOMAIN slots /\
                   ( \/ slots[form.timeSlot].current_appointments
                           >= slots[form.timeSlot].max_appointments
                     \/ ~slots[form.timeSlot].is_available )
              \/ \A s \in form.servicesNeeded :
                    s \notin DOMAIN services \/ ~services[s].is_active
              \/ form.barber \notin DOMAIN barbers
              \/ ~form.format_ok )
            => ~ENABLED (BookBegin(w, form) /\ vars' # vars))
    /\ [][\A w \in Workers :
            (txn[w].op = "book" /\ ~BookFlushOK(txn[w]) /\ BookCommit(w))
               => /\ appts' = appts
                  /\ slots' = slots
                  /\ nextApptId' = nextApptId
                  /\ UNCHANGED <<barbers, services, nextSlotId>>
         ]_vars

\* A booking is at its commit and the store will refuse it, while slot 1 is full so
\* that every further request for it is turned away at the pre-check.
C14_Witness ==
    /\ \E w \in Workers : txn[w].op = "book" /\ ~BookFlushOK(txn[w])
    /\ 1 \in DOMAIN slots
    /\ slots[1].current_appointments >= slots[1].max_appointments
    /\ appts # << >>

\* ----- C15
\* C15: a status update changes no slot: every counter, capacity and flag is what it
\* was. A slot that is full and whose appointments are all CANCELLED is still full
\* after every step that is not the commit of a delete_appointment request.
C15_StatusUpdateKeepsCounters ==
    [][/\ \A a \in 1..MaxApptId : \A st \in StatusForms :
             UpdateAppointmentStatus(a, st) => slots' = slots
       /\ \A i \in DOMAIN slots :
             ( /\ slots[i].current_appointments >= slots[i].max_appointments
               /\ AppointmentsOf(appts, i) # {}
               /\ \A a \in AppointmentsOf(appts, i) : appts[a].status = "CANCELLED"
               /\ ~\E w \in Workers : DeleteAppointmentCommit(w) )
             => /\ i \in DOMAIN slots'
                /\ slots'[i].current_appointments = slots[i].current_appointments
                /\ slots'[i].current_appointments >= slots'[i].max_appointments
      ]_vars

\* Slot 1 is full, both of its appointments are cancelled, and a booking for it is
\* turned away.
C15_Witness ==
    /\ slots[1].current_appointments = slots[1].max_appointments
    /\ Cardinality(AppointmentsOf(appts, 1)) = slots[1].max_appointments
    /\ \A a \in AppointmentsOf(appts, 1) :
          appts[a].status = "CANCELLED" /\ appts[a].cancelled_at # None
    /\ \A form \in BookForms({1}) : book_decision(form) # "commit"

\* ----- C16
\* C16: whenever the counter of a slot that exists before and after a step differs,
\* the step is the commit of a booking for that slot and the counter went up by one,
\* or the commit of a delete_appointment for an appointment of that slot and it went
\* down by one. So edit_timeslot, the availability switch, generation, status updates
\* and the barber and service routes never change it, and no request writes a value
\* of its choosing.
C16_OnlyBookingAndDeletionMoveCounter ==
    [][\A i \in DOMAIN slots \cap DOMAIN slots' :
          slots'[i].current_appointments # slots[i].current_appointments
          => \/ \E w \in Workers :
                  /\ txn[w].op = "book" /\ txn[w].slot = i /\ BookCommit(w)
                  /\ slots'[i].current_appointments = slots[i].current_appointments + 1
             \/ \E w \in Workers :
                  /\ txn[w].op = "delete_appointment" /\ txn[w].slot = i
                  /\ DeleteAppointmentCommit(w)
                  /\ slots'[i].current_appointments = slots[i].current_appointments - 1
      ]_vars

\* Slot 1 holds one appointment, which is cancelled, after its capacity was edited to
\* 1 and it was switched off, the other slots of the day were generated, the second
\* barber was deleted and the service was deactivated.
C16_Witness ==
    /\ slots[1].current_appointments = 1
    /\ slots[1].max_appointments = 1
    /\ ~slots[1].is_available
    /\ \E a \in DOMAIN appts : appts[a].status = "CANCELLED"
    /\ nextApptId > MaxApptId
    /\ Cardinality(DOMAIN slots) = Len(TimeSlotPeriod)
    /\ DOMAIN barbers = {1}
    /\ ~services[1].is_active

\* ----- C17
\* C17: a status update into CONFIRMED, COMPLETED or CANCELLED leaves the matching
\* timestamp (confirmed_at, completed_at, cancelled_at) equal to the time of the
\* request, whatever the column held; no timestamp lies in the future, so entering
\* the same status again replaces the stamp by a later one.
C17_StampIsTimeOfUpdate ==
    /\ [](\A a \in DOMAIN appts :
            /\ appts[a].confirmed_at <= now
            /\ appts[a].completed_at <= now
            /\ appts[a].cancelled_at <= now)
    /\ [][\A a \in DOMAIN appts : \A st \in StatusInputs :
            (status_parses(st) /\ UpdateAppointmentStatus(a, st))
            => /\ Upper(st) = "CONFIRMED" => appts'[a].confirmed_at = now
               /\ Upper(st) = "COMPLETED" => appts'[a].completed_at = now
               /\ Upper(st) = "CANCELLED" => appts'[a].cancelled_at = now
         ]_vars

\* The appointment confirmed at time 1 has been completed and cancelled and then
\* confirmed again: its confirmation stamp is the later time.
C17_Witness ==
    /\ appts[1].status = "CONFIRMED"
    /\ appts[1].confirmed_at = MaxNow
    /\ appts[1].completed_at # None
    /\ appts[1].cancelled_at # None
    /\ appts[1].completed_at < appts[1].confirmed_at

\* ----- C18
\* C18: whatever status s an appointment has, a status update with any of the six
\* statuses t as target is accepted and leaves the appointment in status t, and has no
\* other outcome; t = s and moves out of COMPLETED and CANCELLED included.
C18_EveryTransitionAccepted ==
    \A a \in DOMAIN appts : \A st \in StatusForms :
        /\ Upper(st) \in AppointmentStatus
        /\ ENABLED (UpdateAppointmentStatus(a, st) /\ appts'[a].status = Upper(st))
        /\ ~ENABLED (UpdateAppointmentStatus(a, st) /\ appts'[a].status # Upper(st))

\* The appointment is PENDING again after it has been completed and cancelled.
C18_Witness ==
    /\ appts[1].status = "PENDING"
    /\ appts[1].completed_at # None
    /\ appts[1].cancelled_at # None
    /\ appts[1].confirmed_at # None

\* ----- C19
\* C19: the availability switch of a slot inverts is_available of that slot and
\* changes nothing else: its counter and capacity, every other slot and every
\* appointment (rows and statuses) are as before, also when the counter is above 0.
\* While is_available of a slot is false, every booking request that arrives for it
\* is turned away.
C19_ToggleFlipsOnlyAvailability ==
    /\ [][\A i \in DOMAIN slots :
            ToggleTimeslotAvailability(i)
            => /\ slots' = [slots EXCEPT ![i].is_available = ~slots[i].is_available]
               /\ slots'[i].current_appointments = slots[i].current_appointments
               /\ slots'[i].max_appointments = slots[i].max_appointments
               /\ appts' = appts
         ]_vars
    /\ [](\A i \in DOMAIN slots :
            ~slots[i].is_available
            => \A w \in Workers : \A form \in BookForms({i}) :
                  form.timeSlot = i => ~ENABLED (BookBegin(w, form) /\ vars' # vars))

\* Slot 1 is switched off while it holds one pending appointment and has room for
\* another.
C19_Witness ==
    /\ ~slots[1].is_available
    /\ slots[1].current_appointments = 1
    /\ slots[1].max_appointments = 2
    /\ \E a \in AppointmentsOf(appts, 1) : appts[a].status = "PENDING"
    /\ \A w \in Workers : txn[w] = Idle

\* ----- C20
\* C20: in every reachable state no two time slots have the same date, period and
\* barber, whatever the interleaving of add_timeslot, edit_timeslot and
\* generate_time_slots requests. An add or an edit whose key is taken by another slot
\* when the request arrives is turned away and changes nothing, and one whose key has
\* been taken by the time it commits is rolled back and changes no table.
C20_OneSlotPerKey ==
    /\ [](\A i \in DOMAIN slots : \A j \in DOMAIN slots :
            ( /\ slots[i].date = slots[j].date
              /\ slots[i].period = slots[j].period
              /\ slots[i].barber_id = slots[j].barber_id ) => i = j)
    /\ [](\A w \in {"w1", "w2"} : \A form \in KeyForms :
            /\ (\E j \in DOMAIN slots :
                   SlotKey(slots[j]) = <<form.date, form.period, form.barber_id>>)
               => ~ENABLED (AddTimeslotBegin(w, form) /\ vars' # vars)
            /\ \A i \in DOMAIN slots :
                 (\E j \in DOMAIN slots \ {i} :
                     SlotKey(slots[j]) = <<form.date, form.period, form.barber_id>>)
                 => ~ENABLED (EditTimeslotBegin(w, i, form) /\ vars' # vars))
    /\ [][\A w \in Workers :
            /\ ( /\ txn[w].op = "add_timeslot"
                 /\ \E j \in DOMAIN slots :
                      SlotKey(slots[j]) = <<txn[w].form.date, txn[w].form.period,
                                            txn[w].form.barber_id>>
                 /\ AddTimeslotCommit(w) )
               => UNCHANGED dbvars
            /\ ( /\ txn[w].op = "edit_timeslot"
                 /\ txn[w].slot \in DOMAIN slots
                 /\ \E j \in DOMAIN slots \ {txn[w].slot} :
                      SlotKey(slots[j]) = SlotKey(edited_row(slots[txn[w].slot], txn[w]))
                 /\ EditTimeslotCommit(w) )
               => UNCHANGED dbvars
         ]_vars

\* Two requests are at their commit and the store will refuse both: an add whose key
\* has been taken since it was read, and a generate that read the table before a slot
\* of its list existed.
C20_Witness ==
    /\ txn["w1"].op = "add_timeslot"
    /\ \E j \in DOMAIN slots :
          SlotKey(slots[j]) = <<txn["w1"].form.date, txn["w1"].form.period,
                                txn["w1"].form.barber_id>>
    /\ txn["w3"].op = "generate"
    /\ ~date_period_barber_uc(with_generated(txn["w3"]))

\* ----- C21
\* C21: every appointment a booking creates refers to a barber who exists and is
\* active when it is created, and a request that names a missing or an inactive
\* barber changes nothing.
C21_BookedBarberIsActive ==
    /\ [][\A w \in Workers :
            (txn[w].op = "book" /\ BookCommit(w) /\ nextApptId' # nextApptId)
            => /\ appts'[nextApptId].barber_id \in DOMAIN barbers
               /\ barbers[appts'[nextApptId].barber_id].is_active
         ]_vars
    /\ [](\A w \in Workers : \A form \in BookForms({1}) :
            (form.barber \notin DOMAIN barbers \/ ~barbers[form.barber].is_active)
            => ~ENABLED (BookBegin(w, form) /\ vars' # vars))

\* ----- C22
\* C22: every appointment has at least one service attached, and the services a booking
\* attaches are exactly those it selected when it was admitted, each of which existed
\* and was active then; a request with no service, or with no existing active service
\* among those chosen, changes nothing.
C22_AtLeastOneActiveService ==
    /\ [](\A a \in DOMAIN appts :
            appts[a].services # {} /\ appts[a].services \subseteq DOMAIN services)
    /\ [][\A w \in Workers :
            /\ (txn[w] = Idle /\ txn'[w].op = "book")
               => /\ txn'[w].services # {}
                  /\ \A s \in txn'[w].services :
                        s \in DOMAIN services /\ services[s].is_active
            /\ (txn[w].op = "book" /\ BookCommit(w) /\ nextApptId' # nextApptId)
               => appts'[nextApptId].services = txn[w].services
         ]_vars
    /\ [](\A w \in Workers : \A form \in BookForms({1}) :
            ( \/ form.servicesNeeded = {}
              \/ \A s \in form.servicesNeeded :
                    s \notin DOMAIN services \/ ~services[s].is_active )
            => ~ENABLED (BookBegin(w, form) /\ vars' # vars))

\* Appointments with service 1 exist, and the service has since been deactivated, so
\* that every further request for it is turned away.
C22_Witness ==
    /\ appts # << >>
    /\ \A a \in DOMAIN appts : appts[a].services = {1}
    /\ ~services[1].is_active
    /\ \A w \in Workers : txn[w] = Idle

\* ----- C23
\* C23: every slot that comes into being in a step, through add_timeslot or
\* generate_time_slots, is dated today or later, and an add_timeslot request with a
\* date before today changes nothing.
C23_NoNewSlotInThePast ==
    /\ [][\A i \in DOMAIN slots' \ DOMAIN slots : slots'[i].date >= today]_vars
    /\ [](\A form \in PastForms :
            form.date < today => ~ENABLED (AddTimeslot(form) /\ vars' # vars))

\* After midnight, a slot of yesterday is still there next to a slot created for the
\* new day.
C23_Witness ==
    /\ today = MaxToday
    /\ \E i \in DOMAIN slots : slots[i].date < today
    /\ \E j \in DOMAIN slots : slots[j].date = today

\* ----- C24
\* C24: a booking request that lists a service id which does not exist or is inactive
\* is turned away as a whole and changes nothing, whatever else it lists.
C24_AnyInvalidServiceRejects ==
    \A w \in {"w1", "w2"} : \A form \in BookForms(Targets) :
        (\E s \in form.servicesNeeded :
            s \notin DOMAIN services \/ ~services[s].is_active)
        => ~ENABLED (BookBegin(w, form) /\ vars' # vars)

\* ----- C25
\* C25: a booking that passed the pre-check and finds its slot full at the commit (it
\* lost the race for the last unit) is aborted, and its answer is the slot-full
\* answer of the pre-check, not the generic error.
C25_LostRaceReportedAsSlotFull ==
    \A w \in Workers :
        ( /\ txn[w].op = "book"
          /\ txn[w].slot \in DOMAIN slots
          /\ slots[txn[w].slot].current_appointments
                >= slots[txn[w].slot].max_appointments )
        => /\ ~BookFlushOK(txn[w])
           /\ book_commit_answer(txn[w]) = "slot_unavailable"

\* ----- C26
\* C26: no counter is below 0, and when a delete_appointment request commits after
\* another request has already deleted its appointment, no slot changes: the unit was
\* released once, by the first of the two.
C26_SecondDeleteReleasesNothing ==
    /\ [](\A i \in DOMAIN slots : slots[i].current_appointments >= 0)
    /\ [][\A w \in Workers :
            ( /\ txn[w].op = "delete_appointment"
              /\ txn[w].appt \notin DOMAIN appts
              /\ DeleteAppointmentCommit(w) )
            => slots' = slots
         ]_vars

\* ----- C27
\* C27: an edit form whose max_appointments is below the slot's counter, or whose
\* (date, period, barber) key another slot has, starts nothing, and an edit that meets
\* either at its commit changes no slot; a committing edit changes nothing but the
\* date, period, barber_id and max_appointments of its own slot; and every other form
\* that names an active barber and a date the slot already has or one not before
\* today reaches the commit.
C27_EditRejectedOrFourAttributes ==
    /\ [](\A w \in Workers : \A i \in DOMAIN slots :
            \A form \in CapacityForms(i) \cup PastForms :
               /\ ( max_below_current(form.max_appointments, slots[i])
                    \/ existing_slot(form, i) )
                  => ~ENABLED (EditTimeslotBegin(w, i, form) /\ vars' # vars)
               /\ ( /\ admin_logged_in
                    /\ txn[w] = Idle
                    /\ barber_valid(form.barber_id)
                    /\ ~max_below_current(form.max_appointments, slots[i])
                    /\ ~existing_slot(form, i)
                    /\ (form.date = slots[i].date \/ form.date >= today) )
                  => edit_decision(i, form) = "commit")
    /\ [][\A w \in Workers :
            EditTimeslotCommit(w)
            => /\ DOMAIN slots' = DOMAIN slots
               /\ \A i \in DOMAIN slots :
                    /\ i # txn[w].slot => slots'[i] = slots[i]
                    /\ [slots'[i] EXCEPT !.date = slots[i].date,
                                         !.period = slots[i].period,
                                         !.barber_id = slots[i].barber_id,
                                         !.max_appointments = slots[i].max_appointments]
                         = slots[i]
                    /\ ( /\ i = txn[w].slot
                         /\ \/ max_below_current(txn[w].form.max_appointments, slots[i])
                            \/ existing_slot(txn[w].form, i) )
                       => slots'[i] = slots[i]
         ]_vars

\* ----- C28
\* C28: the clock advancing changes no slot, and an edit of a slot whose stored date
\* is before today, with a form that keeps the slot's date, period and barber, is
\* never answered with the error of the date validator.
C28_PastSlotEditKeepsDate ==
    /\ [][Tick => slots' = slots]_vars
    /\ [](\A i \in DOMAIN slots :
            slots[i].date < today
            => \A form \in CapacityForms(i) : edit_decision(i, form) # "error")

\* ----- C29
\* C29: no step of SpecServices (a service edited, added or toggled, a status
\* updated, another appointment booked or deleted) changes the estimated_price or the
\* estimated_duration of an appointment that exists before and after it.
C29_TotalsFixedAtCreation ==
    [][\A a \in DOMAIN appts \cap DOMAIN appts' :
          /\ appts'[a].estimated_price = appts[a].estimated_price
          /\ appts'[a].estimated_duration = appts[a].estimated_duration
      ]_vars

\* An appointment whose only service has since been given another price and another
\* duration and been switched off, and whose status was updated after that.
C29_Witness ==
    \E a \in DOMAIN appts :
        /\ appts[a].services = {1}
        /\ appts[a].status = "CONFIRMED"
        /\ ~services[1].is_active
        /\ appts[a].estimated_price # Decimal(services[1].price)
        /\ appts[a].estimated_duration # services[1].duration_minutes

\* ----- C30
\* C30: for every appointment, a status update whose form has no status field or
\* gives the unknown name "bogus" is answered as an invalid status and changes
\* nothing (no status, no timestamp, and nothing else); and the member name in lower
\* case or capitalised ("completed", "Completed") is accepted and sets that member.
C30_UnknownStatusIsRejected ==
    /\ [](\A a \in DOMAIN appts :
            /\ \A st \in {"None", "bogus"} :
                 /\ status_decision(a, st) = "invalid_status"
                 /\ ~ENABLED (UpdateAppointmentStatus(a, st) /\ vars' # vars)
            /\ \A st \in {"completed", "Completed"} :
                 status_decision(a, st) = "commit")
    /\ [][\A a \in DOMAIN appts : \A st \in {"completed", "Completed"} :
            UpdateAppointmentStatus(a, st) => appts'[a].status = "COMPLETED"
         ]_vars

\* The admin is logged in and an appointment was completed at a time later than its
\* confirmation: a state in which the forms without a status and with an unknown one
\* are refused.
C30_Witness ==
    /\ admin_logged_in
    /\ \E a \in DOMAIN appts :
         /\ appts[a].status = "COMPLETED"
         /\ appts[a].completed_at > appts[a].confirmed_at
         /\ status_decision(a, "None") = "invalid_status"
         /\ status_decision(a, "bogus") = "invalid_status"

\* ----- C31
\* C31: the session becomes logged in only by an admin_login with the right
\* credentials; an admin request (one that is not a booking) is admitted only while
\* the session is logged in; and while the session is not logged in and no admitted
\* admin request is still waiting for its commit, a step changes no barber and no
\* service, and changes slots or appointments only as the commit of a booking.
C31_AdminRoutesNeedLogin ==
    /\ [][(~admin_logged_in /\ admin_logged_in') => AdminLogin(TRUE)]_vars
    /\ [][\A w \in Workers :
            (txn[w] = Idle /\ txn'[w].op \notin {"idle", "book"}) => admin_logged_in
         ]_vars
    /\ [][( /\ ~admin_logged_in
            /\ \A w \in Workers : txn[w].op \in {"idle", "book"} )
          => /\ barbers' = barbers
             /\ services' = services
             /\ <<slots, appts, nextSlotId, nextApptId>>'
                   # <<slots, appts, nextSlotId, nextApptId>>
                => \E w \in Workers : BookCommit(w)
         ]_vars

\* The admin has logged in, added a barber and generated slots, and logged out; no
\* request is in flight.
C31_Witness ==
    /\ ~admin_logged_in
    /\ MaxBarberId \in DOMAIN barbers
    /\ 2 \in DOMAIN slots
    /\ \A w \in Workers : txn[w] = Idle

\* ----- C32
\* C32: whenever the admin is logged in and a barber owns a time slot or an
\* appointment, delete_barber on that barber can succeed, and it then removes the
\* barber, every time slot of the barber and every appointment of the barber.
C32_DeleteBarberCascades ==
    \A b \in DOMAIN barbers :
        ( /\ admin_logged_in
          /\ \/ \E i \in DOMAIN slots : slots[i].barber_id = b
             \/ \E a \in DOMAIN appts : appts[a].barber_id = b )
        => ENABLED ( /\ DeleteBarber(b)
                     /\ b \notin DOMAIN barbers'
                     /\ \A i \in DOMAIN slots' : slots'[i].barber_id # b
                     /\ \A a \in DOMAIN appts' : appts'[a].barber_id # b )

\* ----- C33
\* C33: in every reachable state every appointment's time_slot_id is the id of a
\* TimeSlot row and its barber_id the id of a Barber row, and every time slot's
\* barber_id is the id of a Barber row.
C33_ReferencesExist ==
    /\ \A a \in DOMAIN appts :
          /\ appts[a].time_slot_id \in DOMAIN slots
          /\ appts[a].barber_id \in DOMAIN barbers
    /\ \A i \in DOMAIN slots : slots[i].barber_id \in DOMAIN barbers

\* ----- C34
\* C34: in every reachable state an appointment that is CONFIRMED has confirmed_at
\* set, one that is COMPLETED has completed_at set, and one that is CANCELLED has
\* cancelled_at set.
C34_StatusHasItsTimestamp ==
    \A a \in DOMAIN appts :
        /\ appts[a].status = "CONFIRMED" => appts[a].confirmed_at # None
        /\ appts[a].status = "COMPLETED" => appts[a].completed_at # None
        /\ appts[a].status = "CANCELLED" => appts[a].cancelled_at # None

\* An appointment that was booked (PENDING, no timestamp), then confirmed, completed
\* and cancelled in turn: it carries all three timestamps.
C34_Witness ==
    \E a \in DOMAIN appts :
        /\ appts[a].status = "CANCELLED"
        /\ appts[a].confirmed_at # None
        /\ appts[a].completed_at # None
        /\ appts[a].cancelled_at # None

\* ----- C35
\* C35: in every reachable state the barber_id of an appointment is the barber_id of
\* the time slot it references.
C35_AppointmentBarberIsSlotBarber ==
    \A a \in DOMAIN appts :
        appts[a].time_slot_id \in DOMAIN slots
        => appts[a].barber_id = slots[appts[a].time_slot_id].barber_id

\* ----- C36
\* C36: a booking is admitted only for a slot that the availability query of the
\* booking form selects at that moment (dated today or within the window after it,
\* available, not full), and no booking commits an appointment on a slot dated before
\* today.
C36_BookedSlotIsListed ==
    /\ [](\A form \in BookForms(DOMAIN slots) :
            book_decision(form) = "commit" => form.timeSlot \in bookable_slots(today))
    /\ [][\A a \in DOMAIN appts' \ DOMAIN appts :
            appts'[a].time_slot_id \in DOMAIN slots
            => slots[appts'[a].time_slot_id].date >= today
         ]_vars

\* ----- C37
\* C37: in every reachable state, no appointment references a time slot that is no
\* longer in the table; and when a booking commits after delete_timeslot removed its
\* slot, it commits nothing.
C37_NoAppointmentOnDeletedSlot ==
    /\ [](\A a \in DOMAIN appts : appts[a].time_slot_id \in DOMAIN slots)
    /\ [][\A w \in Workers :
            ( /\ txn[w].op = "book"
              /\ txn[w].slot \notin DOMAIN slots
              /\ BookCommit(w) )
            => appts' = appts
         ]_vars

====
